---------------------------- MODULE Spec2Model ----------------------------
(***************************************************************************)
(* A model of the markdown extractors and documentation checks of the      *)
(* Reasoning-Process test suite (src/tests).                               *)
(*                                                                         *)
(* A text is a sequence of one-character strings; "\n" is the line break.  *)
(* Every extractor and check is a scan over a text: its local variables    *)
(* are the variables of the module, its loop body is one action per branch *)
(* and its return (or final assert) is an action of its own.  Each family  *)
(* of checks has its own specification (SpecCode, SpecChk, ...) whose Init *)
(* draws the input texts from a bounded set.                               *)
(***************************************************************************)
EXTENDS Integers, Sequences, FiniteSets, TLC

VARIABLES
    pc,                 \* "scan" while a loop runs, "done" once it returned
    content,            \* the text read from the (main) document
    content2,           \* the text of the second document of a two-file check
    lines,              \* content.split('\n')
    i,                  \* 1-based number of the next line of the loop
    \* extract_code_blocks
    in_code_block, current_block, start_line, code_blocks,
    \* extract_checklists
    current_section, current_checklist, checklists,
    \* test_tables_well_formed
    in_table, table_start, column_count, table_issues,
    \* test_heading_hierarchy
    matches, prev_level, hierarchy_issues,
    \* test_no_broken_emphasis
    suspicious_lines,
    \* the outcome of the check that ran: [test, passed, diag]
    result

vars == <<pc, content, content2, lines, i, in_code_block, current_block,
          start_line, code_blocks, current_section, current_checklist,
          checklists, in_table, table_start, column_count, table_issues,
          matches, prev_level, hierarchy_issues, suspicious_lines, result>>

docVars == <<content, content2, lines>>
codeVars == <<in_code_block, current_block, start_line, code_blocks>>
chkVars == <<current_section, current_checklist, checklists>>
tblVars == <<in_table, table_start, column_count, table_issues>>
hdVars == <<matches, prev_level, hierarchy_issues>>
emVars == <<suspicious_lines>>

\* the locals of the other scans, which a scan leaves alone
notCode == <<chkVars, tblVars, hdVars, emVars>>
notChk == <<codeVars, tblVars, hdVars, emVars>>
notTbl == <<codeVars, chkVars, hdVars, emVars>>
notHd == <<codeVars, chkVars, tblVars, emVars>>
scanVars == <<codeVars, chkVars, tblVars, hdVars, emVars>>

-----------------------------------------------------------------------------
(* Characters and strings *)

NL == "\n"
\* the backquote character (U+0060), which a TLA+ string cannot hold: "~"
\* stands for it, and no text of the model has a tilde of its own
BT == "~"

LowerChars == <<"a","b","c","d","e","f","g","h","i","j","k","l","m",
                "n","o","p","q","r","s","t","u","v","w","x","y","z">>
UpperChars == <<"A","B","C","D","E","F","G","H","I","J","K","L","M",
                "N","O","P","Q","R","S","T","U","V","W","X","Y","Z">>
Digits == {"0","1","2","3","4","5","6","7","8","9"}

Range(s) == {s[k] : k \in 1..Len(s)}

\* \w of Python's re, on the characters the texts are made of
WordChars == Range(LowerChars) \cup Range(UpperChars) \cup Digits \cup {"_"}

\* \s of Python's re and the characters str.strip() removes
Whitespace == {" ", NL, "\t"}

\* str.startswith(prefix)
StartsWith(s, prefix) ==
    /\ Len(s) >= Len(prefix)
    /\ \A k \in 1..Len(prefix) : s[k] = prefix[k]

\* sub in text
Contains(text, sub) ==
    \E p \in 1..(Len(text) - Len(sub) + 1) : SubSeq(text, p, p + Len(sub) - 1) = sub

\* the length of the longest prefix of s[from..] made of characters of set
RECURSIVE RunLen(_, _, _)
RunLen(s, from, set) ==
    IF from <= Len(s) /\ s[from] \in set
    THEN 1 + RunLen(s, from + 1, set)
    ELSE 0

\* str.lower(), on the characters the texts are made of
UpperToLower ==
    [c \in Range(UpperChars) |-> LowerChars[CHOOSE k \in 1..26 : UpperChars[k] = c]]

LowerChar(c) == IF c \in DOMAIN UpperToLower THEN UpperToLower[c] ELSE c

Lower(s) == [k \in 1..Len(s) |-> LowerChar(s[k])]

\* the number of characters of set at the end of s
RECURSIVE RunLenBack(_, _)
RunLenBack(s, set) ==
    IF s # <<>> /\ s[Len(s)] \in set
    THEN 1 + RunLenBack(SubSeq(s, 1, Len(s) - 1), set)
    ELSE 0

\* str.strip()
Strip(s) ==
    LET a == RunLen(s, 1, Whitespace)
    IN  IF a = Len(s) THEN <<>>
        ELSE SubSeq(s, a + 1, Len(s) - RunLenBack(s, Whitespace))

\* str.split('\n'): the pieces between line breaks, always at least one
RECURSIVE SplitFrom(_, _, _)
SplitFrom(s, from, cur) ==
    IF from > Len(s) THEN <<cur>>
    ELSE IF s[from] = NL THEN <<cur>> \o SplitFrom(s, from + 1, <<>>)
    ELSE SplitFrom(s, from + 1, Append(cur, s[from]))

Split(s) == SplitFrom(s, 1, <<>>)

\* sep.join(parts), with a one-character separator
RECURSIVE Join(_, _)
Join(parts, sep) ==
    IF parts = <<>> THEN <<>>
    ELSE IF Len(parts) = 1 THEN Head(parts)
    ELSE Head(parts) \o <<sep>> \o Join(Tail(parts), sep)

\* the parts one after the other
RECURSIVE Concat(_)
Concat(parts) == IF parts = <<>> THEN <<>> ELSE Head(parts) \o Concat(Tail(parts))

CR == "\r"

\* Path.read_text: the file is opened in text mode, where '\r\n' and a lone
\* '\r' both reach the program as '\n'
RECURSIVE ReadTextFrom(_, _)
ReadTextFrom(file, k) ==
    IF k > Len(file) THEN <<>>
    ELSE IF file[k] = CR /\ k < Len(file) /\ file[k + 1] = NL
    THEN <<NL>> \o ReadTextFrom(file, k + 2)
    ELSE IF file[k] = CR THEN <<NL>> \o ReadTextFrom(file, k + 1)
    ELSE <<file[k]>> \o ReadTextFrom(file, k + 1)

ReadText(file) == ReadTextFrom(file, 1)

\* all sequences over S of length 1..n
SeqsUpTo(S, n) == UNION {[1..k -> S] : k \in 1..n}

-----------------------------------------------------------------------------
(* The locals of each scan before its loop starts *)

\* current_block = None
NoBlock == [language |-> <<>>, code |-> <<>>, line_number |-> 0]

\* current_section = "Unknown"
Unknown == <<"U","n","k","n","o","w","n">>

\* current_checklist = None
NoChecklist == [section |-> <<>>, items |-> <<>>, line_number |-> 0]

CodeIdle ==
    /\ in_code_block = FALSE
    /\ current_block = NoBlock
    /\ start_line = 0
    /\ code_blocks = <<>>

ChkIdle ==
    /\ current_section = Unknown
    /\ current_checklist = NoChecklist
    /\ checklists = <<>>

TblIdle ==
    /\ in_table = FALSE
    /\ table_start = 0
    /\ column_count = 0
    /\ table_issues = <<>>

HdIdle ==
    /\ matches = <<>>
    /\ prev_level = 0
    /\ hierarchy_issues = <<>>

EmIdle == suspicious_lines = <<>>

\* no check has run
NoResult == [test |-> "none", passed |-> TRUE, diag |-> <<>>]

\* every scan is before its loop and no check has run
AllIdle ==
    /\ CodeIdle /\ ChkIdle /\ TblIdle /\ HdIdle /\ EmIdle
    /\ result = NoResult

-----------------------------------------------------------------------------
(* extract_checklists (src/tests/conftest.py) *)

\* section_pattern = r'^#{1,6}\s+(.+)', matched at the start of one line: one
\* to six '#', then whitespace, then at least one more character.  \s+ is
\* greedy and gives one character back when the whitespace runs to the end of
\* the line.
HashRun(line) == RunLen(line, 1, {"#"})
SectionSpaces(line) == RunLen(line, HashRun(line) + 1, Whitespace)

SectionMatch(line) ==
    /\ HashRun(line) \in 1..6
    /\ SectionSpaces(line) >= 1
    /\ \/ HashRun(line) + SectionSpaces(line) < Len(line)
       \/ SectionSpaces(line) >= 2

\* a group that is the whole line instead of the heading's text
SectionGroup_WholeLine(line) == line

\* section_match.group(1)
SectionGroup(line) ==
    IF HashRun(line) + SectionSpaces(line) < Len(line)
    THEN SubSeq(line, HashRun(line) + SectionSpaces(line) + 1, Len(line))
    ELSE SubSeq(line, Len(line), Len(line))

\* checklist_pattern = r'^-\s*\[[ x]\]\s*(.+)' with re.IGNORECASE: '-',
\* optional whitespace, '[', a space or x or X, ']', optional whitespace, then
\* at least one more character (the last whitespace character when nothing
\* else follows)
BoxAt(line) == 2 + RunLen(line, 2, Whitespace)
BoxSpaces(line) == RunLen(line, BoxAt(line) + 3, Whitespace)

\* a match without re.IGNORECASE: the box holds a space or a lower-case x
ChecklistMatch_CaseSensitive(line) ==
    /\ Len(line) >= BoxAt(line) + 2
    /\ line[1] = "-"
    /\ line[BoxAt(line)] = "["
    /\ line[BoxAt(line) + 1] \in {" ", "x"}
    /\ line[BoxAt(line) + 2] = "]"
    /\ \/ BoxAt(line) + 2 + BoxSpaces(line) < Len(line)
       \/ BoxSpaces(line) >= 1

ChecklistMatch(line) ==
    /\ Len(line) >= BoxAt(line) + 2
    /\ line[1] = "-"
    /\ line[BoxAt(line)] = "["
    /\ line[BoxAt(line) + 1] \in {" ", "x", "X"}
    /\ line[BoxAt(line) + 2] = "]"
    /\ \/ BoxAt(line) + 2 + BoxSpaces(line) < Len(line)
       \/ BoxSpaces(line) >= 1

\* checklist_match.group(1)
ChecklistGroup(line) ==
    IF BoxAt(line) + 2 + BoxSpaces(line) < Len(line)
    THEN SubSeq(line, BoxAt(line) + 3 + BoxSpaces(line), Len(line))
    ELSE SubSeq(line, Len(line), Len(line))

\* a flush that does not look at the group it emits
Flushed_NoGuard(list, cl) == Append(list, cl)

\* 'if current_checklist and current_checklist['items']: checklists.append'
Flushed(list, cl) ==
    IF cl # NoChecklist /\ cl.items # <<>> THEN Append(list, cl) ELSE list

\* a group numbered from line 0, as enumerate(lines) without its start
OpenedChecklist_ZeroBased(section, n) ==
    [section |-> section, items |-> <<>>, line_number |-> n - 1]

\* the group a checklist line opens, before its item is appended
OpenedChecklist(section, n) == [section |-> section, items |-> <<>>, line_number |-> n]

\* an item that takes the place of the items before it
WithItem_Overwrite(cl, line) == [cl EXCEPT !.items = << Strip(ChecklistGroup(line)) >>]

\* current_checklist['items'].append(checklist_match.group(1).strip())
WithItem(cl, line) == [cl EXCEPT !.items = Append(@, Strip(ChecklistGroup(line)))]

\* a heading: flush the open group, take the heading as the current section
ChkHeading ==
    /\ pc = "scan" /\ i <= Len(lines)
    /\ SectionMatch(lines[i])
    /\ checklists' = Flushed(checklists, current_checklist)
    /\ current_section' = Strip(SectionGroup(lines[i]))
    /\ current_checklist' = NoChecklist
    /\ i' = i + 1
    /\ UNCHANGED <<pc, docVars, notChk, result>>

\* a checklist item while no group is open: open one and append the item
ChkItemOpen ==
    /\ pc = "scan" /\ i <= Len(lines)
    /\ ~SectionMatch(lines[i])
    /\ ChecklistMatch(lines[i])
    /\ current_checklist = NoChecklist
    /\ current_checklist' = WithItem(OpenedChecklist(current_section, i), lines[i])
    /\ i' = i + 1
    /\ UNCHANGED <<pc, docVars, current_section, checklists, notChk, result>>

\* a checklist item while a group is open: append the item
ChkItemAppend ==
    /\ pc = "scan" /\ i <= Len(lines)
    /\ ~SectionMatch(lines[i])
    /\ ChecklistMatch(lines[i])
    /\ current_checklist # NoChecklist
    /\ current_checklist' = WithItem(current_checklist, lines[i])
    /\ i' = i + 1
    /\ UNCHANGED <<pc, docVars, current_section, checklists, notChk, result>>

\* a scan in which no line ends the open group
EndsChecklist_Never(line) == FALSE

\* a scan that knows fence lines and does not end the group at one
EndsChecklist_NotAtFence(line) ==
    /\ current_checklist # NoChecklist
    /\ Strip(line) # <<>>
    /\ ~StartsWith(line, <<"-">>)
    /\ ~StartsWith(line, <<BT, BT, BT>>)

\* 'elif current_checklist and line.strip() and not line.startswith('-')'
EndsChecklist(line) ==
    /\ current_checklist # NoChecklist
    /\ Strip(line) # <<>>
    /\ ~StartsWith(line, <<"-">>)

\* a non-empty line that is no list line ends the open group
ChkEnd ==
    /\ pc = "scan" /\ i <= Len(lines)
    /\ ~SectionMatch(lines[i])
    /\ ~ChecklistMatch(lines[i])
    /\ EndsChecklist(lines[i])
    /\ checklists' = Flushed(checklists, current_checklist)
    /\ current_checklist' = NoChecklist
    /\ i' = i + 1
    /\ UNCHANGED <<pc, docVars, current_section, notChk, result>>

\* any other line changes nothing
ChkOther ==
    /\ pc = "scan" /\ i <= Len(lines)
    /\ ~SectionMatch(lines[i])
    /\ ~ChecklistMatch(lines[i])
    /\ ~EndsChecklist(lines[i])
    /\ i' = i + 1
    /\ UNCHANGED <<pc, docVars, chkVars, notChk, result>>

\* the flush after the loop, and 'return checklists'
ChkReturn ==
    /\ pc = "scan" /\ i > Len(lines)
    /\ checklists' = Flushed(checklists, current_checklist)
    /\ pc' = "done"
    /\ UNCHANGED <<docVars, i, current_section, current_checklist,
                   notChk, result>>

ExtractChecklists ==
    ChkHeading \/ ChkItemOpen \/ ChkItemAppend \/ ChkEnd \/ ChkOther \/ ChkReturn

\* the lines the checklist specification draws its documents from
HeadingT == <<"#", " ", "T">>
HeadingS == <<"#", "#", "#", " ", "S">>
ItemA == <<"-", " ", "[", " ", "]", " ", "a">>
ItemB == <<"-", "[", "X", "]", "b", " ">>
ProseP == <<"p">>
ListN == <<"-", " ", "n">>

ChkLineSet == { <<>>, HeadingT, HeadingS, ItemA, ItemB, ProseP, ListN }

MaxChkLines == 5

InitChk ==
    /\ \E doc \in SeqsUpTo(ChkLineSet, MaxChkLines) :
          /\ content = Join(doc, NL)
          /\ lines = Split(Join(doc, NL))
    /\ content2 = <<>>
    /\ pc = "scan"
    /\ i = 1
    /\ AllIdle

NextChk == ExtractChecklists

SpecChk == InitChk /\ [][NextChk]_vars

-----------------------------------------------------------------------------
(* extract_checklists called on two documents, one after the other *)

\* the second call, extract_checklists(content2): the groups the first call
\* returned are kept in result, and the locals start afresh
ExtractSecond ==
    /\ pc = "done" /\ result.test = "none"
    /\ result' = [test |-> "extract_checklists", passed |-> TRUE, diag |-> checklists]
    /\ lines' = Split(content2)
    /\ checklists' = <<>>
    /\ current_section' = Unknown
    /\ current_checklist' = NoChecklist
    /\ i' = 1
    /\ pc' = "scan"
    /\ UNCHANGED <<content, content2, notChk>>

\* the three states of a checkbox
BoxChars == {" ", "x", "X"}

\* the lines of the two-document specification: a shape and, for the item
\* shapes, the character in the box
BoxShapes == {"blank", "heading", "prose", "item a", "item b"}

BoxLine(shape, c) ==
    CASE shape = "blank" -> <<>>
      [] shape = "heading" -> HeadingT
      [] shape = "prose" -> ProseP
      [] shape = "item a" -> <<"-", " ", "[", c, "]", " ", "a">>
      [] shape = "item b" -> <<"-", "[", c, "]", "b", " ">>

IsItemShape(shape) == shape \in {"item a", "item b"}

\* the boxes of a document: one character for each item line, a space for
\* every other line
BoxesOf(shapes) ==
    {b \in [1..Len(shapes) -> BoxChars] :
        \A k \in 1..Len(shapes) : ~IsItemShape(shapes[k]) => b[k] = " "}

BoxDocument(shapes, boxes) ==
    Join([k \in 1..Len(shapes) |-> BoxLine(shapes[k], boxes[k])], NL)

MaxBoxLines == 3

\* boxes with the box of line k replaced by c, when line k is an item line
Reboxed(shapes, boxes, k, c) ==
    IF IsItemShape(shapes[k]) THEN [boxes EXCEPT ![k] = c] ELSE boxes

\* two documents of the same shapes: the second is the first with the box of
\* one item line replaced
InitBox ==
    /\ \E shapes \in SeqsUpTo(BoxShapes, MaxBoxLines) :
          \E b1 \in BoxesOf(shapes), k \in 1..Len(shapes), c \in BoxChars :
              /\ content = BoxDocument(shapes, b1)
              /\ content2 = BoxDocument(shapes, Reboxed(shapes, b1, k, c))
              /\ lines = Split(BoxDocument(shapes, b1))
    /\ pc = "scan"
    /\ i = 1
    /\ AllIdle

NextBox == ExtractChecklists \/ ExtractSecond

SpecBox == InitBox /\ [][NextBox]_vars

-----------------------------------------------------------------------------
(* test_checklist_items_are_questions_or_statements
   (src/tests/test_checklist_coverage.py) *)

\* 'if len(item) < 10'
MinItemLength == 10

\* 'assert len(problematic_items) < 3'
ProblematicLimit == 3

\* a test that also flags an item of exactly the minimum length
TooShort_Inclusive(item) == Len(item) <= MinItemLength

TooShort(item) == Len(item) < MinItemLength

\* the entries one checklist adds to problematic_items.  The elif branch
\* reads item[0] of an item of at least ten characters and does nothing.
RECURSIVE ProblematicEntries(_, _)
ProblematicEntries(section, items) ==
    IF items = <<>> THEN <<>>
    ELSE (IF TooShort(Head(items))
          THEN << [section |-> section, item |-> Head(items), issue |-> "too short"] >>
          ELSE <<>>)
         \o ProblematicEntries(section, Tail(items))

\* the loop over checklists
RECURSIVE ProblematicItems(_)
ProblematicItems(cls) ==
    IF cls = <<>> THEN <<>>
    ELSE ProblematicEntries(Head(cls).section, Head(cls).items)
         \o ProblematicItems(Tail(cls))

\* the test, run on the checklists extracted from the document
TestChecklistItemsAreQuestionsOrStatements ==
    /\ pc = "done" /\ result.test = "none"
    /\ LET problematic_items == ProblematicItems(checklists)
       IN  result' = [test |-> "test_checklist_items_are_questions_or_statements",
                      passed |-> Len(problematic_items) < ProblematicLimit,
                      diag |-> problematic_items]
    /\ UNCHANGED <<pc, docVars, i, chkVars, notChk>>

\* the lines the item-substance specification draws its documents from: items
\* of nine and of ten characters, the second starting with a lower-case
\* letter, and an item of one character
ItemNine == <<"-"," ","["," ","]"," ","C","h","e","c","k"," ","i","t",".">>
ItemTen == <<"-"," ","[","x","]"," ","c","h","e","c","k"," ","t","h","e","m">>

SubLineSet == { HeadingT, ProseP, ItemA, ItemNine, ItemTen }

MaxSubLines == 4

InitSub ==
    /\ \E doc \in SeqsUpTo(SubLineSet, MaxSubLines) :
          /\ content = Join(doc, NL)
          /\ lines = Split(Join(doc, NL))
    /\ content2 = <<>>
    /\ pc = "scan"
    /\ i = 1
    /\ AllIdle

NextSub == ExtractChecklists \/ TestChecklistItemsAreQuestionsOrStatements

SpecSub == InitSub /\ [][NextSub]_vars

-----------------------------------------------------------------------------
(* test_checklist_items_actionable (src/tests/test_checklist_coverage.py) *)

action_indicators ==
    << <<"i","s">>, <<"a","r","e">>, <<"d","o","e","s">>, <<"d","o">>,
       <<"h","a","v","e">>, <<"h","a","s">>, <<"c","a","n">>, <<"w","i","l","l">>,
       <<"v","e","r","i","f","y">>, <<"c","h","e","c","k">>, <<"e","n","s","u","r","e">>, <<"c","o","n","f","i","r","m">>,
       <<"r","e","v","i","e","w">>, <<"t","e","s","t">>, <<"w","h","a","t">>, <<"h","o","w">>,
       <<"a","m">>, <<"i"," ">> >>

\* the words of 'has_verification_word'
verification_words ==
    << <<"c","o","r","r","e","c","t">>, <<"p","r","o","p","e","r">>, <<"v","a","l","i","d">>, <<"c","o","m","p","l","e","t","e">>, <<"c","l","e","a","r">> >>

\* 'if len(item_lower.split()) < 3'
MinWordCount == 3

\* 'assert len(non_actionable) < 5'
NonActionableLimit == 5

\* len(s.split()): the number of runs of characters that are no whitespace
RECURSIVE WordCountFrom(_, _)
WordCountFrom(s, k) ==
    IF k > Len(s) THEN 0
    ELSE (IF s[k] \notin Whitespace /\ (k = 1 \/ s[k - 1] \in Whitespace) THEN 1 ELSE 0)
         + WordCountFrom(s, k + 1)

WordCount(s) == WordCountFrom(s, 1)

\* the item stripped but not lower-cased
ItemLower_KeepCase(item) == Strip(item)

\* item_lower = item.lower().strip()
ItemLower(item) == Strip(Lower(item))

\* any(item_lower.startswith(indicator) for indicator in action_indicators)
IsActionable(item_lower) ==
    \E k \in 1..Len(action_indicators) : StartsWith(item_lower, action_indicators[k])

\* '?' in item
IsQuestion(item) == \E k \in 1..Len(item) : item[k] = "?"

\* any(word in item_lower for word in [...])
HasVerificationWord(item_lower) ==
    \E k \in 1..Len(verification_words) : Contains(item_lower, verification_words[k])

\* the two nested ifs that append to non_actionable
Flagged(item) ==
    LET item_lower == ItemLower(item)
    IN  /\ ~(IsActionable(item_lower) \/ IsQuestion(item) \/ HasVerificationWord(item_lower))
        /\ WordCount(item_lower) < MinWordCount

\* the entries one checklist adds to non_actionable
RECURSIVE NonActionableEntries(_, _)
NonActionableEntries(section, items) ==
    IF items = <<>> THEN <<>>
    ELSE (IF Flagged(Head(items))
          THEN << [section |-> section, item |-> Head(items)] >>
          ELSE <<>>)
         \o NonActionableEntries(section, Tail(items))

\* the loop over checklists
RECURSIVE NonActionable(_)
NonActionable(cls) ==
    IF cls = <<>> THEN <<>>
    ELSE NonActionableEntries(Head(cls).section, Head(cls).items)
         \o NonActionable(Tail(cls))

\* the test, run on the checklists extracted from the document
TestChecklistItemsActionable ==
    /\ pc = "done" /\ result.test = "none"
    /\ LET non_actionable == NonActionable(checklists)
       IN  result' = [test |-> "test_checklist_items_actionable",
                      passed |-> Len(non_actionable) < NonActionableLimit,
                      diag |-> non_actionable]
    /\ UNCHANGED <<pc, docVars, i, chkVars, notChk>>

\* the lines the actionability specification draws its documents from
ActRunIt == <<"-"," ","["," ","]"," ","R","u","n"," ","i","t">>
ActRunAllNow == <<"-"," ","["," ","]"," ","R","u","n"," ","a","l","l"," ","n","o","w">>
ActIssue == <<"-"," ","["," ","]"," ","I","s","s","u","e">>
ActStopQ == <<"-"," ","["," ","]"," ","S","t","o","p","?">>
ActValid == <<"-"," ","["," ","]"," ","V","A","L","I","D">>

ActLineSet == { ActRunIt, ActRunAllNow, ActIssue, ActStopQ, ActValid }

\* a heading, an item and two lines of prose that a document may open with
ActPreamble == <<HeadingT, ActRunIt, ProseP, ProseP>>

MaxActLines == 5

InitAct ==
    /\ \E doc \in SeqsUpTo(ActLineSet, MaxActLines), opening \in {<<>>, ActPreamble} :
          /\ content = Join(opening \o doc, NL)
          /\ lines = Split(Join(opening \o doc, NL))
    /\ content2 = <<>>
    /\ pc = "scan"
    /\ i = 1
    /\ AllIdle

NextAct == ExtractChecklists \/ TestChecklistItemsActionable

SpecAct == InitAct /\ [][NextAct]_vars

-----------------------------------------------------------------------------
(* test_no_duplicate_checklist_items (src/tests/test_checklist_coverage.py) *)

\* a normalization that keeps the case of the item
NormItem_CaseSensitive(item) == Strip(item)

\* item.lower().strip()
NormItem(item) == Strip(Lower(item))

NormItems(items) == [k \in 1..Len(items) |-> NormItem(items[k])]

\* Counter(...).items(): each distinct element with its count, in the order of
\* first occurrence
RECURSIVE CounterFrom(_, _)
CounterFrom(seq, k) ==
    IF k > Len(seq) THEN <<>>
    ELSE (IF \E j \in 1..(k - 1) : seq[j] = seq[k]
          THEN <<>>
          ELSE << [item |-> seq[k],
                   count |-> Cardinality({j \in 1..Len(seq) : seq[j] = seq[k]})] >>)
         \o CounterFrom(seq, k + 1)

Counter(seq) == CounterFrom(seq, 1)

\* the entries one checklist adds to duplicates
RECURSIVE DuplicateEntries(_, _)
DuplicateEntries(section, counts) ==
    IF counts = <<>> THEN <<>>
    ELSE (IF Head(counts).count > 1
          THEN << [section |-> section, item |-> Head(counts).item,
                   count |-> Head(counts).count] >>
          ELSE <<>>)
         \o DuplicateEntries(section, Tail(counts))

\* the loop over checklists
RECURSIVE Duplicates(_)
Duplicates(cls) ==
    IF cls = <<>> THEN <<>>
    ELSE DuplicateEntries(Head(cls).section, Counter(NormItems(Head(cls).items)))
         \o Duplicates(Tail(cls))

\* the test, run on the checklists extracted from the document
TestNoDuplicateChecklistItems ==
    /\ pc = "done" /\ result.test = "none"
    /\ result' = [test |-> "test_no_duplicate_checklist_items",
                  passed |-> Len(Duplicates(checklists)) = 0,
                  diag |-> Duplicates(checklists)]
    /\ UNCHANGED <<pc, docVars, i, chkVars, notChk>>

\* the lines the duplicate specification draws its documents from
ItemCheck1 == <<"-"," ","["," ","]"," ","C","h","e","c","k"," ","i","n","p","u","t">>
ItemCheck2 == <<"-"," ","[","x","]"," ","c","h","e","c","k"," ","i","n","p","u","t">>
ItemCheck3 == <<"-"," ","["," ","]"," ","C","h","e","c","k"," ","i","n","p","u","t"," ">>

DupLineSet == { HeadingT, ProseP, ItemB, ItemCheck1, ItemCheck2, ItemCheck3 }

MaxDupLines == 4

InitDup ==
    /\ \E doc \in SeqsUpTo(DupLineSet, MaxDupLines) :
          /\ content = Join(doc, NL)
          /\ lines = Split(Join(doc, NL))
    /\ content2 = <<>>
    /\ pc = "scan"
    /\ i = 1
    /\ AllIdle

NextDup == ExtractChecklists \/ TestNoDuplicateChecklistItems

SpecDup == InitDup /\ [][NextDup]_vars

-----------------------------------------------------------------------------
(* test_tables_well_formed (src/tests/test_markdown_syntax.py) *)

\* str.count(c)
Count(s, c) == Cardinality({k \in 1..Len(s) : s[k] = c})

\* an issue numbered from line 0
TableIssue_ZeroBased(n, from, to) == [line |-> n - 1, from |-> from, to |-> to]

\* {'line': i, 'issue': 'Column count changed from {from} to {to}'}
TableIssue(n, from, to) == [line |-> n, from |-> from, to |-> to]

\* '|' in stripped
HasPipe(line) == Count(Strip(line), "|") > 0

\* outside a table, a line with '|' starts one and sets the expected count
TblStart ==
    /\ pc = "scan" /\ i <= Len(lines)
    /\ HasPipe(lines[i]) /\ ~in_table
    /\ in_table' = TRUE
    /\ table_start' = i
    /\ column_count' = Count(Strip(lines[i]), "|")
    /\ i' = i + 1
    /\ UNCHANGED <<pc, docVars, table_issues, notTbl, result>>

\* inside a table, a row with the expected number of pipes
TblRowOk ==
    /\ pc = "scan" /\ i <= Len(lines)
    /\ in_table /\ HasPipe(lines[i])
    /\ Count(Strip(lines[i]), "|") = column_count
    /\ i' = i + 1
    /\ UNCHANGED <<pc, docVars, tblVars, notTbl, result>>

\* a mismatching row that becomes the row the next ones are compared with
TblRowMismatch_Updating ==
    /\ pc = "scan" /\ i <= Len(lines)
    /\ in_table /\ HasPipe(lines[i])
    /\ Count(Strip(lines[i]), "|") # column_count
    /\ table_issues' = Append(table_issues,
           TableIssue(i, column_count, Count(Strip(lines[i]), "|")))
    /\ column_count' = Count(Strip(lines[i]), "|")
    /\ i' = i + 1
    /\ UNCHANGED <<pc, docVars, in_table, table_start, notTbl, result>>

\* inside a table, a row with another number of pipes is an issue
TblRowMismatch ==
    /\ pc = "scan" /\ i <= Len(lines)
    /\ in_table /\ HasPipe(lines[i])
    /\ Count(Strip(lines[i]), "|") # column_count
    /\ table_issues' = Append(table_issues,
           TableIssue(i, column_count, Count(Strip(lines[i]), "|")))
    /\ i' = i + 1
    /\ UNCHANGED <<pc, docVars, in_table, table_start, column_count, notTbl, result>>

\* inside a table, a line without '|' ends it
TblEnd ==
    /\ pc = "scan" /\ i <= Len(lines)
    /\ in_table /\ ~HasPipe(lines[i])
    /\ in_table' = FALSE
    /\ i' = i + 1
    /\ UNCHANGED <<pc, docVars, table_start, column_count, table_issues, notTbl, result>>

\* outside a table, a line without '|'
TblSkip ==
    /\ pc = "scan" /\ i <= Len(lines)
    /\ ~in_table /\ ~HasPipe(lines[i])
    /\ i' = i + 1
    /\ UNCHANGED <<pc, docVars, tblVars, notTbl, result>>

\* assert len(table_issues) == 0
TblAssert ==
    /\ pc = "scan" /\ i > Len(lines)
    /\ pc' = "done"
    /\ result' = [test |-> "test_tables_well_formed",
                  passed |-> Len(table_issues) = 0,
                  diag |-> table_issues]
    /\ UNCHANGED <<docVars, i, tblVars, notTbl>>

\* the lines the table specification draws its documents from
Row3 == <<"|", "a", "|", "b", "|">>
Row2 == <<" ", "|", "a", "|", "b">>
Row1 == <<"a", "|">>

TblLineSet == { <<>>, <<"a">>, Row1, Row2, Row3 }

MaxTblLines == 5

InitTbl ==
    /\ \E doc \in SeqsUpTo(TblLineSet, MaxTblLines) :
          /\ content = Join(doc, NL)
          /\ lines = Split(Join(doc, NL))
    /\ content2 = <<>>
    /\ pc = "scan"
    /\ i = 1
    /\ AllIdle

NextTbl == TblStart \/ TblRowOk \/ TblRowMismatch \/ TblEnd \/ TblSkip \/ TblAssert

SpecTbl == InitTbl /\ [][NextTbl]_vars

-----------------------------------------------------------------------------
(* test_heading_hierarchy (src/tests/test_markdown_syntax.py), on one file *)

\* header_pattern = r'^(#{1,6})\s+' with re.MULTILINE: a match starts where a
\* line starts, takes one to six '#' and needs a whitespace character after
\* them, which may be the line break that ends the line.  What \s+ takes is
\* whitespace only, so no match hides the start of a later one.
LineStart(s, p) == p = 1 \/ s[p - 1] = NL

HeaderAt(s, p) ==
    /\ LineStart(s, p)
    /\ RunLen(s, p, {"#"}) \in 1..6
    /\ p + RunLen(s, p, {"#"}) <= Len(s)
    /\ s[p + RunLen(s, p, {"#"})] \in Whitespace

\* [len(m.group(1)) for m in header_pattern.finditer(content)]
RECURSIVE HeaderLevelsFrom(_, _)
HeaderLevelsFrom(s, p) ==
    IF p > Len(s) THEN <<>>
    ELSE (IF HeaderAt(s, p) THEN <<RunLen(s, p, {"#"})>> ELSE <<>>)
         \o HeaderLevelsFrom(s, p + 1)

HeaderLevels(s) == HeaderLevelsFrom(s, 1)

\* a check that tolerates a skip of one level only
LargeJump_OneLevel(prev, cur) == cur > prev + 1

\* current_level > prev_level + 2
LargeJump(prev, cur) == cur > prev + 2

\* matches = list(header_pattern.finditer(content)); prev_level = 0
HdFind ==
    /\ pc = "find"
    /\ matches' = HeaderLevels(content)
    /\ prev_level' = 0
    /\ pc' = "scan"
    /\ UNCHANGED <<docVars, i, hierarchy_issues, notHd, result>>

\* the first header may have any level
HdFirst ==
    /\ pc = "scan" /\ i <= Len(matches)
    /\ prev_level = 0
    /\ prev_level' = matches[i]
    /\ i' = i + 1
    /\ UNCHANGED <<pc, docVars, matches, hierarchy_issues, notHd, result>>

\* a header more than two levels below the one before it
HdJump ==
    /\ pc = "scan" /\ i <= Len(matches)
    /\ prev_level # 0
    /\ LargeJump(prev_level, matches[i])
    /\ hierarchy_issues' = Append(hierarchy_issues,
                                  [from |-> prev_level, to |-> matches[i]])
    /\ prev_level' = matches[i]
    /\ i' = i + 1
    /\ UNCHANGED <<pc, docVars, matches, notHd, result>>

\* any other header
HdStep ==
    /\ pc = "scan" /\ i <= Len(matches)
    /\ prev_level # 0
    /\ ~LargeJump(prev_level, matches[i])
    /\ prev_level' = matches[i]
    /\ i' = i + 1
    /\ UNCHANGED <<pc, docVars, matches, hierarchy_issues, notHd, result>>

\* assert len(hierarchy_issues) == 0
HdAssert ==
    /\ pc = "scan" /\ i > Len(matches)
    /\ pc' = "done"
    /\ result' = [test |-> "test_heading_hierarchy",
                  passed |-> Len(hierarchy_issues) = 0,
                  diag |-> hierarchy_issues]
    /\ UNCHANGED <<docVars, i, hdVars, notHd>>

\* the lines the heading specification draws its documents from
HeadLine1 == <<"#", " ", "a">>
HeadLine2 == <<"#", "#", " ", "a">>
HeadLine4 == <<"#", "#", "#", "#", " ", "a">>
HeadLine5 == <<"#", "#", "#", "#", "#", " ", "a">>
BareHashes4 == <<"#", "#", "#", "#">>

HdLineSet == { <<>>, <<"a">>, HeadLine1, HeadLine2, HeadLine4, HeadLine5, BareHashes4 }

MaxHdLines == 4

InitHd ==
    /\ \E doc \in SeqsUpTo(HdLineSet, MaxHdLines) :
          /\ content = Join(doc, NL)
          /\ lines = Split(Join(doc, NL))
    /\ content2 = <<>>
    /\ pc = "find"
    /\ i = 1
    /\ AllIdle

NextHd == HdFind \/ HdFirst \/ HdJump \/ HdStep \/ HdAssert

SpecHd == InitHd /\ [][NextHd]_vars

-----------------------------------------------------------------------------
(* TestSectionAlignment (src/tests/test_consistency.py) *)

\* the position of the last character of the line that holds position p
RECURSIVE LineEnd(_, _)
LineEnd(s, p) ==
    IF p < Len(s) /\ s[p + 1] # NL THEN LineEnd(s, p + 1) ELSE p

\* pattern = r'^##\s+(.+)$' with re.MULTILINE, tried at position p: '##' at
\* the start of a line, then whitespace, which may run over line breaks, then
\* the rest of the line on which the whitespace ends.  When the whitespace
\* runs to the end of the text, \s+ gives characters back until (.+) finds a
\* character that is no line break.
SectionTextStart(s, p) ==
    LET q == p + 2 + RunLen(s, p + 2, Whitespace)
    IN  IF q <= Len(s) THEN q
        ELSE IF \E j \in (p + 3)..Len(s) : s[j] # NL
        THEN CHOOSE j \in (p + 3)..Len(s) :
                 s[j] # NL /\ \A m \in (j + 1)..Len(s) : s[m] = NL
        ELSE 0

MajorSectionAt(s, p) ==
    /\ LineStart(s, p)
    /\ p + 2 <= Len(s)
    /\ s[p] = "#" /\ s[p + 1] = "#"
    /\ s[p + 2] \in Whitespace
    /\ SectionTextStart(s, p) # 0

\* match.group(1)
MajorSectionGroup(s, p) ==
    SubSeq(s, SectionTextStart(s, p), LineEnd(s, SectionTextStart(s, p)))

\* the characters [^a-z\s] does not remove
LowerOrSpaceChars == Range(LowerChars) \cup Whitespace

IsLowerOrSpace(c) == c \in LowerOrSpaceChars

\* a normalization that does not trim
NormalizeSection_NoStrip(text) == SelectSeq(Lower(text), IsLowerOrSpace)

\* a normalization that keeps the digits
NormalizeSection_KeepDigits(text) ==
    Strip(SelectSeq(Lower(text), LAMBDA c : IsLowerOrSpace(c) \/ c \in Digits))

\* re.sub(r'[^a-z\s]', '', match.group(1).lower()).strip()
NormalizeSection(text) == Strip(SelectSeq(Lower(text), IsLowerOrSpace))

\* the loop over pattern.finditer(content): the search goes on after the end
\* of each match
RECURSIVE MajorSectionsFrom(_, _)
MajorSectionsFrom(s, p) ==
    IF p > Len(s) THEN {}
    ELSE IF MajorSectionAt(s, p)
    THEN LET group == MajorSectionGroup(s, p)
         IN  {NormalizeSection(group)}
             \cup MajorSectionsFrom(s, SectionTextStart(s, p) + Len(group))
    ELSE MajorSectionsFrom(s, p + 1)

\* _get_major_sections(content)
GetMajorSections(s) == MajorSectionsFrom(s, 1)

\* a diagnostic that reports one direction twice
SectionDiff_OneWay(main, cskill) ==
    [only_main |-> main \ cskill, only_cskill |-> main \ cskill]

\* 'Only in main: {main - cskill}. Only in cskill: {cskill - main}'
SectionDiff(main, cskill) ==
    [only_main |-> main \ cskill, only_cskill |-> cskill \ main]

\* test_full_copies_have_same_sections
TestFullCopiesHaveSameSections ==
    /\ pc = "start"
    /\ pc' = "done"
    /\ LET main_content == ReadText(content)
           cskill_content == ReadText(content2)
           main_sections == GetMajorSections(main_content)
           cskill_sections == GetMajorSections(cskill_content)
       IN  result' = [test |-> "test_full_copies_have_same_sections",
                      passed |-> main_sections = cskill_sections,
                      diag |-> SectionDiff(main_sections, cskill_sections)]
    /\ UNCHANGED <<docVars, i, scanVars>>

\* the lines the section specification draws its documents from
SecOverview == <<"#","#"," ","O","v","e","r","v","i","e","w">>
SecPlanning == <<"#","#"," ","P","l","a","n","n","i","n","g">>
SecExtra == <<"#","#"," ","E","x","t","r","a">>
SecOverviewBang == <<"#","#"," ","O","v","e","r","v","i","e","w"," ","!">>
SecBare == <<"#","#">>
TitleExtra == <<"#"," ","E","x","t","r","a">>
SubPlanning == <<"#","#","#"," ","P","l","a","n","n","i","n","g">>

SecLineSet == { SecOverview, SecPlanning, SecExtra, SecOverviewBang, SecBare,
                TitleExtra, SubPlanning }

MaxSecLines == 2

InitSec ==
    /\ \E doc \in SeqsUpTo(SecLineSet, MaxSecLines) : content = Join(doc, NL)
    /\ \E doc \in SeqsUpTo(SecLineSet, MaxSecLines) : content2 = Join(doc, NL)
    /\ lines = <<>>
    /\ pc = "start"
    /\ i = 1
    /\ AllIdle

NextSec == TestFullCopiesHaveSameSections

SpecSec == InitSec /\ [][NextSec]_vars

-----------------------------------------------------------------------------
(* test_link_format_valid (src/tests/test_markdown_syntax.py) *)

\* the first position from 'from' on at which s holds c, or 0
RECURSIVE IndexOf(_, _, _)
IndexOf(s, c, from) ==
    IF from > Len(s) THEN 0
    ELSE IF s[from] = c THEN from
    ELSE IndexOf(s, c, from + 1)

\* link_pattern = r'\[([^\]]*)\]\(([^\)]*)\)' tried at position p: '[', then
\* everything up to the first ']', which '(' must follow, then everything up
\* to the first ')'.  The positions of the ']' and of the ')', or 0 and 0.
LinkMatchAt(s, p) ==
    LET close == IF s[p] = "[" THEN IndexOf(s, "]", p + 1) ELSE 0
        paren == IF close # 0 /\ close < Len(s) /\ s[close + 1] = "("
                 THEN IndexOf(s, ")", close + 2)
                 ELSE 0
    IN  IF paren = 0 THEN <<0, 0>> ELSE <<close, paren>>

\* link_pattern.finditer(content): the matches from left to right, each
\* search starting after the end of the match before
RECURSIVE LinksFrom(_, _)
LinksFrom(s, p) ==
    IF p > Len(s) THEN <<>>
    ELSE LET m == LinkMatchAt(s, p)
         IN  IF m[2] = 0 THEN LinksFrom(s, p + 1)
             ELSE << [link_text |-> SubSeq(s, p + 1, m[1] - 1),
                      link_url |-> SubSeq(s, m[1] + 2, m[2] - 1)] >>
                  \o LinksFrom(s, m[2] + 1)

\* the entries one link adds to malformed_links
LinkIssues(file, link) ==
    (IF Strip(link.link_text) = <<>>
     THEN << [file |-> file, issue |-> "empty link text", url |-> link.link_url] >>
     ELSE <<>>)
    \o
    (IF Strip(link.link_url) # link.link_url
     THEN << [file |-> file, issue |-> "whitespace in URL", url |-> link.link_url] >>
     ELSE <<>>)

\* the entries of the links of one file
RECURSIVE MalformedIn(_, _)
MalformedIn(file, links) ==
    IF links = <<>> THEN <<>>
    ELSE LinkIssues(file, Head(links)) \o MalformedIn(file, Tail(links))

\* the test, on the two files content and content2
TestLinkFormatValid ==
    /\ pc = "start"
    /\ pc' = "done"
    /\ LET malformed_links == MalformedIn("content", LinksFrom(content, 1))
                              \o MalformedIn("content2", LinksFrom(content2, 1))
       IN  result' = [test |-> "test_link_format_valid",
                      passed |-> Len(malformed_links) = 0,
                      diag |-> malformed_links]
    /\ UNCHANGED <<docVars, i, scanVars>>

\* the pieces the link specification builds its files from: link texts, URLs
\* and a letter
TextA == <<"[","a","]">>
TextBlank == <<"["," ","]">>
UrlB == <<"(","b",")">>
UrlInnerSpace == <<"(","b"," ","c",")">>
UrlLeadingSpace == <<"("," ","b",")">>

LinkPieces == { TextA, TextBlank, UrlB, UrlInnerSpace, UrlLeadingSpace, <<"x">> }

MaxLinkPieces == 3

\* the second file: empty, a well-formed link, or a link without text
SecondLinkFiles == { <<>>, TextA \o UrlB, TextBlank \o UrlB }

InitLink ==
    /\ \E doc \in SeqsUpTo(LinkPieces, MaxLinkPieces) : content = Concat(doc)
    /\ content2 \in SecondLinkFiles
    /\ lines = <<>>
    /\ pc = "start"
    /\ i = 1
    /\ AllIdle

NextLink == TestLinkFormatValid

SpecLink == InitLink /\ [][NextLink]_vars

-----------------------------------------------------------------------------
(* test_markdown_code_blocks_well_formed (src/tests/test_code_examples.py) *)

\* the text holds three backticks from position p on
FenceAt(s, p) == p + 2 <= Len(s) /\ s[p] = BT /\ s[p + 1] = BT /\ s[p + 2] = BT

\* the positions of three backticks anywhere in the text
AllFences_Anywhere(s) == {p \in 1..Len(s) : FenceAt(s, p)}

\* re.findall(r'^```', content, re.MULTILINE): the positions at the start of
\* a line where three backticks stand
AllFences(s) == {p \in 1..Len(s) : LineStart(s, p) /\ FenceAt(s, p)}

\* the test, on one file
TestMarkdownCodeBlocksWellFormed ==
    /\ pc = "start"
    /\ pc' = "done"
    /\ LET all_fences == AllFences(content)
       IN  result' = [test |-> "test_markdown_code_blocks_well_formed",
                      passed |-> Cardinality(all_fences) % 2 = 0,
                      diag |-> Cardinality(all_fences)]
    /\ UNCHANGED <<docVars, i, scanVars>>

\* the lines the fence-count specification draws its documents from
FenceLineSet ==
    { <<>>,
      <<"a">>,
      <<BT, BT, BT>>,                        \* ```
      <<BT, BT, BT, "p", "y">>,              \* ```py
      <<"a", BT, BT, BT>>,                   \* a```
      <<BT, BT, BT, BT, BT, BT>> }           \* ``````

MaxFenceLines == 3

InitFence ==
    /\ \E doc \in SeqsUpTo(FenceLineSet, MaxFenceLines) : content = Join(doc, NL)
    /\ content2 = <<>>
    /\ lines = <<>>
    /\ pc = "start"
    /\ i = 1
    /\ AllIdle

NextFence == TestMarkdownCodeBlocksWellFormed

SpecFence == InitFence /\ [][NextFence]_vars

-----------------------------------------------------------------------------
(* The topical coverage checks (src/tests/test_checklist_coverage.py) *)

\* [case for case in phrases if case in content_lower]
Found(phrases, content_lower) ==
    SelectSeq(phrases, LAMBDA case : Contains(content_lower, case))

\* len(found) > minimum, in place of >=
AtLeast_Strict(found, minimum) == Len(found) > minimum

\* len(found) >= minimum
AtLeast(found, minimum) == Len(found) >= minimum

\* the body the five checks share: lower-case the document, keep the phrases
\* it contains, assert there are enough of them
CoverageCheck(test, phrases, minimum) ==
    /\ pc = "start"
    /\ pc' = "done"
    /\ LET content_lower == Lower(content)
           found == Found(phrases, content_lower)
       IN  result' = [test |-> test, passed |-> AtLeast(found, minimum), diag |-> found]
    /\ UNCHANGED <<docVars, i, scanVars>>

required_edge_cases ==
    << <<"e","m","p","t","y">>,
       <<"s","i","n","g","l","e">>,
       <<"m","a","x","i","m","u","m">>,
       <<"i","n","v","a","l","i","d">>,
       <<"n","u","l","l">>,
       <<"n","e","g","a","t","i","v","e">>,
       <<"z","e","r","o">> >>

\* assert len(found) >= 5
EdgeCasesMin == 5

TestEdgeCaseChecklistComprehensive ==
    CoverageCheck("test_edge_case_checklist_comprehensive", required_edge_cases, EdgeCasesMin)

security_concerns ==
    << <<"s","q","l"," ","i","n","j","e","c","t","i","o","n">>,
       <<"x","s","s">>,
       <<"i","n","p","u","t">>,
       <<"s","e","n","s","i","t","i","v","e">>,
       <<"s","e","c","r","e","t","s">>,
       <<"a","u","t","h","e","n","t","i","c","a","t","i","o","n">> >>

\* assert len(found) >= 4
SecurityConcernsMin == 4

TestSecurityChecklistComprehensive ==
    CoverageCheck("test_security_checklist_comprehensive", security_concerns, SecurityConcernsMin)

quality_aspects ==
    << <<"r","e","a","d","a","b","l","e">>,
       <<"c","o","r","r","e","c","t">>,
       <<"e","r","r","o","r">>,
       <<"e","f","f","i","c","i","e","n","t">>,
       <<"p","e","r","f","o","r","m","a","n","c","e">> >>

\* assert len(found) >= 4
QualityAspectsMin == 4

TestCodeQualityChecklistComplete ==
    CoverageCheck("test_code_quality_checklist_complete", quality_aspects, QualityAspectsMin)

task_types ==
    << <<"c","o","d","i","n","g">>,
       <<"a","n","a","l","y","s","i","s">>,
       <<"p","r","o","b","l","e","m">>,
       <<"c","o","m","p","l","e","x">> >>

\* assert len(found) >= 3
TaskTypesMin == 3

TestCoversCommonTaskTypes ==
    CoverageCheck("test_covers_common_task_types", task_types, TaskTypesMin)

error_types ==
    << <<"l","o","g","i","c">>,
       <<"c","o","m","p","l","e","t","e","n","e","s","s">>,
       <<"a","c","c","u","r","a","c","y">>,
       <<"e","f","f","i","c","i","e","n","c","y">> >>

\* assert len(found) >= 3
ErrorTypesMin == 3

TestCoversErrorCategories ==
    CoverageCheck("test_covers_error_categories", error_types, ErrorTypesMin)

\* the words the coverage specification builds its documents from, one list
\* for each check: phrases in lower, upper and mixed case, phrases inside
\* longer words, and words that only resemble a phrase
EdgeWords ==
    << <<"E","m","p","t","y">>,
       <<"s","i","n","g","l","e","t","o","n">>,
       <<"M","A","X","I","M","U","M">>,
       <<"i","n","v","a","l","i","d">>,
       <<"n","u","l","l">>,
       <<"n","e","g","a","t","i","v","e">>,
       <<"Z","e","r","o">>,
       <<"z","e","r">> >>

SecurityWords ==
    << <<"S","Q","L">>,
       <<"i","n","j","e","c","t","i","o","n">>,
       <<"X","S","S">>,
       <<"i","n","p","u","t","s">>,
       <<"S","e","n","s","i","t","i","v","e">>,
       <<"s","e","c","r","e","t">>,
       <<"s","e","c","r","e","t","s">>,
       <<"A","u","t","h","e","n","t","i","c","a","t","i","o","n">> >>

QualityWords ==
    << <<"r","e","a","d","a","b","l","e">>,
       <<"i","n","c","o","r","r","e","c","t">>,
       <<"E","r","r","o","r","s">>,
       <<"e","f","f","i","c","i","e","n","c","y">>,
       <<"e","f","f","i","c","i","e","n","t">>,
       <<"P","E","R","F","O","R","M","A","N","C","E">>,
       <<"p","e","r","f","o","r","m">> >>

TaskWords ==
    << <<"C","o","d","i","n","g">>,
       <<"a","n","a","l","y","s","e","s">>,
       <<"a","n","a","l","y","s","i","s">>,
       <<"p","r","o","b","l","e","m","s">>,
       <<"C","O","M","P","L","E","X">>,
       <<"c","o","m","p","l","e","t","e">> >>

ErrorWords ==
    << <<"l","o","g","i","c","a","l">>,
       <<"c","o","m","p","l","e","t","e","n","e","s","s">>,
       <<"a","c","c","u","r","a","t","e">>,
       <<"a","c","c","u","r","a","c","y">>,
       <<"E","f","f","i","c","i","e","n","c","y">>,
       <<"e","f","f","i","c","i","e","n","t">> >>

Vocabularies == {EdgeWords, SecurityWords, QualityWords, TaskWords, ErrorWords}

\* the most words a document has
MaxWords == 6

\* the words of voc whose index is in chosen, in the order of voc
RECURSIVE Chosen(_, _, _)
Chosen(voc, chosen, k) ==
    IF k > Len(voc) THEN <<>>
    ELSE (IF k \in chosen THEN <<voc[k]>> ELSE <<>>) \o Chosen(voc, chosen, k + 1)

\* the documents: at most MaxWords words of one vocabulary, separated by one
\* space
CovDocuments ==
    UNION { { Join(Chosen(voc, chosen, 1), " ") :
                chosen \in {c \in SUBSET (1..Len(voc)) : Cardinality(c) <= MaxWords} } :
            voc \in Vocabularies }

InitCov ==
    /\ content \in CovDocuments
    /\ content2 = <<>>
    /\ lines = <<>>
    /\ pc = "start"
    /\ i = 1
    /\ AllIdle

NextCov ==
    \/ TestEdgeCaseChecklistComprehensive
    \/ TestSecurityChecklistComprehensive
    \/ TestCodeQualityChecklistComplete
    \/ TestCoversCommonTaskTypes
    \/ TestCoversErrorCategories

SpecCov == InitCov /\ [][NextCov]_vars

-----------------------------------------------------------------------------
(* The identity check (src/tests/test_consistency.py): read_text, str.encode
   and hashlib.sha256 *)

\* the position of c in the sequence s of distinct characters
IndexIn(s, c) == CHOOSE k \in 1..Len(s) : s[k] = c

DecimalDigits == <<"0","1","2","3","4","5","6","7","8","9">>

\* the UTF-8 code of a character of the texts; each is one byte
Ord(c) ==
    CASE c = "\t" -> 9
      [] c = NL -> 10
      [] c = CR -> 13
      [] c = " " -> 32
      [] c = "#" -> 35
      [] c \in Digits -> 47 + IndexIn(DecimalDigits, c)
      [] c \in Range(UpperChars) -> 64 + IndexIn(UpperChars, c)
      [] c \in Range(LowerChars) -> 96 + IndexIn(LowerChars, c)

\* str.encode(): the bytes of the text
Encode(text) == [k \in 1..Len(text) |-> Ord(text[k])]

\* A 32-bit word is a pair <<high, low>> of 16-bit halves.

\* exclusive or and conjunction of two n-bit numbers, bit by bit
RECURSIVE BitXor(_, _, _)
BitXor(a, b, n) ==
    IF n = 0 THEN 0
    ELSE ((a + b) % 2) + 2 * BitXor(a \div 2, b \div 2, n - 1)

RECURSIVE BitAnd(_, _, _)
BitAnd(a, b, n) ==
    IF n = 0 THEN 0
    ELSE ((a % 2) * (b % 2)) + 2 * BitAnd(a \div 2, b \div 2, n - 1)

\* the same on bytes, as tables
Xor8 == [a \in 0..255 |-> [b \in 0..255 |-> BitXor(a, b, 8)]]
And8 == [a \in 0..255 |-> [b \in 0..255 |-> BitAnd(a, b, 8)]]

Xor16(a, b) == 256 * Xor8[a \div 256][b \div 256] + Xor8[a % 256][b % 256]
And16(a, b) == 256 * And8[a \div 256][b \div 256] + And8[a % 256][b % 256]

Xor(x, y) == <<Xor16(x[1], y[1]), Xor16(x[2], y[2])>>
And(x, y) == <<And16(x[1], y[1]), And16(x[2], y[2])>>
Not(x) == <<65535 - x[1], 65535 - x[2]>>

\* addition modulo 2^32
Add(x, y) ==
    LET low == x[2] + y[2]
    IN  <<(x[1] + y[1] + (low \div 65536)) % 65536, low % 65536>>

\* rotation and shift to the right by n bits, 0 <= n < 32
Rotr(x, n) ==
    LET y == IF n >= 16 THEN <<x[2], x[1]>> ELSE x
        m == n % 16
        cut == 2 ^ m
        up == 2 ^ (16 - m)
    IN  <<(y[1] \div cut) + (y[2] % cut) * up, (y[2] \div cut) + (y[1] % cut) * up>>

Shr(x, n) ==
    LET cut == 2 ^ n
        up == 2 ^ (16 - n)
    IN  <<x[1] \div cut, (x[2] \div cut) + (x[1] % cut) * up>>

\* the functions of SHA-256 (FIPS 180-4, 4.1.2)
Ch(x, y, z) == Xor(And(x, y), And(Not(x), z))
Maj(x, y, z) == Xor(Xor(And(x, y), And(x, z)), And(y, z))
BigSigma0(x) == Xor(Xor(Rotr(x, 2), Rotr(x, 13)), Rotr(x, 22))
BigSigma1(x) == Xor(Xor(Rotr(x, 6), Rotr(x, 11)), Rotr(x, 25))
SmallSigma0(x) == Xor(Xor(Rotr(x, 7), Rotr(x, 18)), Shr(x, 3))
SmallSigma1(x) == Xor(Xor(Rotr(x, 17), Rotr(x, 19)), Shr(x, 10))

\* the round constants (FIPS 180-4, 4.2.2)
RoundK ==
    << <<17034, 12184>>, <<28983, 17553>>, <<46528, 64463>>, <<59829, 56229>>,
       <<14678, 49755>>, <<23025, 4593>>, <<37439, 33444>>, <<43804, 24277>>,
       <<55303, 43672>>, <<4739, 23297>>, <<9265, 34238>>, <<21772, 32195>>,
       <<29374, 23924>>, <<32990, 45566>>, <<39900, 1703>>, <<49563, 61812>>,
       <<58523, 27073>>, <<61374, 18310>>, <<4033, 40390>>, <<9228, 41420>>,
       <<11753, 11375>>, <<19060, 33962>>, <<23728, 43484>>, <<30457, 35034>>,
       <<38974, 20818>>, <<43057, 50797>>, <<45059, 10184>>, <<48985, 32711>>,
       <<50912, 3059>>, <<54695, 37191>>, <<1738, 25425>>, <<5161, 10599>>,
       <<10167, 2693>>, <<11803, 8504>>, <<19756, 28156>>, <<21304, 3347>>,
       <<25866, 29524>>, <<30314, 2747>>, <<33218, 51502>>, <<37490, 11397>>,
       <<41663, 59553>>, <<43034, 26187>>, <<49739, 35696>>, <<51052, 20899>>,
       <<53650, 59417>>, <<54937, 1572>>, <<62478, 13701>>, <<4202, 41072>>,
       <<6564, 49430>>, <<7735, 27656>>, <<10056, 30540>>, <<13488, 48309>>,
       <<14620, 3251>>, <<20184, 43594>>, <<23452, 51791>>, <<26670, 28659>>,
       <<29839, 33518>>, <<30885, 25455>>, <<33992, 30740>>, <<36039, 520>>,
       <<37054, 65530>>, <<42064, 27883>>, <<48889, 41975>>, <<50801, 30962>> >>

\* the initial hash value (FIPS 180-4, 5.3.3)
InitialHash ==
    << <<27145, 58983>>, <<47975, 44677>>, <<15470, 62322>>, <<42319, 62778>>,
       <<20750, 21119>>, <<39685, 26764>>, <<8067, 55723>>, <<23520, 52505>> >>

\* n zero bytes
Zeros(n) == [k \in 1..n |-> 0]

\* the message with its padding: a byte 128, zero bytes up to 56 modulo 64,
\* and the length in bits as eight bytes, most significant first
BitLengthBytes(n) ==
    LET bits == 8 * n
    IN  <<0, 0, 0, 0, bits \div 16777216, (bits \div 65536) % 256,
          (bits \div 256) % 256, bits % 256>>

Padded(bytes) ==
    bytes \o <<128>> \o Zeros((55 - Len(bytes)) % 64) \o BitLengthBytes(Len(bytes))

\* the sixteen words of the block that starts after byte at
BlockWords(bytes, at) ==
    [t \in 1..16 |-> <<256 * bytes[at + 4 * t - 3] + bytes[at + 4 * t - 2],
                       256 * bytes[at + 4 * t - 1] + bytes[at + 4 * t]>>]

\* the message schedule, extended from 16 to 64 words
RECURSIVE Schedule(_)
Schedule(w) ==
    IF Len(w) = 64 THEN w
    ELSE LET t == Len(w) + 1
         IN  Schedule(Append(w, Add(Add(SmallSigma1(w[t - 2]), w[t - 7]),
                                    Add(SmallSigma0(w[t - 15]), w[t - 16]))))

\* one round on the working variables a..h
Round(s, k, w) ==
    LET t1 == Add(Add(Add(s[8], BigSigma1(s[5])), Add(Ch(s[5], s[6], s[7]), k)), w)
        t2 == Add(BigSigma0(s[1]), Maj(s[1], s[2], s[3]))
    IN  <<Add(t1, t2), s[1], s[2], s[3], Add(s[4], t1), s[5], s[6], s[7]>>

\* the working variables at the start and after each of the 64 rounds
RECURSIVE Rounds(_, _)
Rounds(states, w) ==
    IF Len(states) = 65 THEN states
    ELSE LET t == Len(states)
         IN  Rounds(Append(states, Round(states[t], RoundK[t], w[t])), w)

\* the hash value after one more block
Compress(h, block) ==
    LET s == Rounds(<<h>>, Schedule(block))[65]
    IN  [j \in 1..8 |-> Add(h[j], s[j])]

\* the hash value after each block so far, the initial value first
RECURSIVE HashBlocks(_, _)
HashBlocks(hs, bytes) ==
    IF 64 * (Len(hs) - 1) >= Len(bytes) THEN hs[Len(hs)]
    ELSE HashBlocks(Append(hs, Compress(hs[Len(hs)], BlockWords(bytes, 64 * (Len(hs) - 1)))),
                    bytes)

\* hashlib.sha256(bytes): the eight words of the digest
Sha256(bytes) == HashBlocks(<<InitialHash>>, Padded(bytes))

HexDigits == <<"0","1","2","3","4","5","6","7","8","9","a","b","c","d","e","f">>

\* the four hexadecimal digits of a 16-bit number
Hex16(n) ==
    <<HexDigits[(n \div 4096) + 1], HexDigits[((n \div 256) % 16) + 1],
      HexDigits[((n \div 16) % 16) + 1], HexDigits[(n % 16) + 1]>>

\* .hexdigest(): 64 hexadecimal digits
RECURSIVE HexDigestFrom(_, _)
HexDigestFrom(h, j) ==
    IF j > Len(h) THEN <<>>
    ELSE Hex16(h[j][1]) \o Hex16(h[j][2]) \o HexDigestFrom(h, j + 1)

HexDigest(h) == HexDigestFrom(h, 1)

\* test_main_and_cskill_identical
TestMainAndCskillIdentical ==
    /\ pc = "start"
    /\ pc' = "done"
    /\ LET main_content == ReadText(content)
           cskill_content == ReadText(content2)
           main_hash == HexDigest(Sha256(Encode(main_content)))
           cskill_hash == HexDigest(Sha256(Encode(cskill_content)))
       IN  result' = [test |-> "test_main_and_cskill_identical",
                      passed |-> main_hash = cskill_hash,
                      diag |-> <<main_hash, cskill_hash>>]
    /\ UNCHANGED <<docVars, i, scanVars>>

\* the characters the files of the identity specification are made of
IdChars == {"a", NL, CR}

\* the most characters a file has
MaxIdChars == 2

IdFiles == {<<>>} \cup SeqsUpTo(IdChars, MaxIdChars)

InitId ==
    /\ content \in IdFiles
    /\ content2 \in IdFiles
    /\ lines = <<>>
    /\ pc = "start"
    /\ i = 1
    /\ AllIdle

NextId == TestMainAndCskillIdentical

SpecId == InitId /\ [][NextId]_vars

-----------------------------------------------------------------------------
(* extract_code_blocks (src/tests/conftest.py) *)

Fence == <<BT, BT, BT>>

\* a match on the line without its leading whitespace
CodeFenceMatch_Trimmed(line) == StartsWith(Strip(line), Fence)

\* code_fence_pattern.match(line): r'^```(\w*)' matches iff the line starts
\* with three backticks
CodeFenceMatch(line) == StartsWith(line, Fence)

\* match.group(1): the longest run of word characters right after the third
\* backtick (empty when the fourth character is no word character)
CodeFenceLanguage(line) == SubSeq(line, 4, 3 + RunLen(line, 4, WordChars))

NewBlock(line, n) ==
    [language |-> CodeFenceLanguage(line), code |-> <<>>, line_number |-> n]

\* a closing that loses the line breaks of the body
ClosedBlock_NoBreaks(block) == [block EXCEPT !.code = Concat(block.code)]

\* current_block['code'] = '\n'.join(current_block['code'])
ClosedBlock(block) == [block EXCEPT !.code = Join(block.code, NL)]

\* the lines the code-block specification draws its documents from
CodeLineSet ==
    { <<>>,                                  \* an empty line
      <<"a">>,                               \* prose, or a body line
      <<" ", BT, BT, BT>>,                   \* an indented fence
      Fence,                                 \* ```
      <<BT, BT, BT, "p", "y">>,              \* ```py
      <<BT, BT, BT, BT, "p", "y">> }         \* ````py

MaxCodeLines == 5

InitCode ==
    /\ \E doc \in SeqsUpTo(CodeLineSet, MaxCodeLines) :
          /\ content = Join(doc, NL)
          /\ lines = Split(Join(doc, NL))
    /\ content2 = <<>>
    /\ pc = "scan"
    /\ i = 1
    /\ AllIdle

\* not in a block, the line opens one
CodeOpen ==
    /\ pc = "scan" /\ i <= Len(lines)
    /\ ~in_code_block
    /\ CodeFenceMatch(lines[i])
    /\ in_code_block' = TRUE
    /\ current_block' = NewBlock(lines[i], i)
    /\ start_line' = i
    /\ i' = i + 1
    /\ UNCHANGED <<pc, docVars, code_blocks, notCode, result>>

\* not in a block, any other line
CodeSkip ==
    /\ pc = "scan" /\ i <= Len(lines)
    /\ ~in_code_block
    /\ ~CodeFenceMatch(lines[i])
    /\ i' = i + 1
    /\ UNCHANGED <<pc, docVars, codeVars, notCode, result>>

\* in a block, the line starts with ```: the block is closed and emitted
CodeClose ==
    /\ pc = "scan" /\ i <= Len(lines)
    /\ in_code_block
    /\ StartsWith(lines[i], Fence)
    /\ in_code_block' = FALSE
    /\ code_blocks' = Append(code_blocks, ClosedBlock(current_block))
    /\ current_block' = NoBlock
    /\ i' = i + 1
    /\ UNCHANGED <<pc, docVars, start_line, notCode, result>>

\* in a block, any other line is appended to the body
CodeAppend ==
    /\ pc = "scan" /\ i <= Len(lines)
    /\ in_code_block
    /\ ~StartsWith(lines[i], Fence)
    /\ current_block' = [current_block EXCEPT !.code = Append(@, lines[i])]
    /\ i' = i + 1
    /\ UNCHANGED <<pc, docVars, in_code_block, start_line, code_blocks,
                   notCode, result>>

\* a return that also emits the block still open at the end of the input
CodeReturn_EmitOpen ==
    /\ pc = "scan" /\ i > Len(lines)
    /\ pc' = "done"
    /\ code_blocks' = IF in_code_block
                      THEN Append(code_blocks, ClosedBlock(current_block))
                      ELSE code_blocks
    /\ UNCHANGED <<docVars, i, in_code_block, current_block, start_line,
                   notCode, result>>

\* return code_blocks
CodeReturn ==
    /\ pc = "scan" /\ i > Len(lines)
    /\ pc' = "done"
    /\ UNCHANGED <<docVars, i, codeVars, notCode, result>>

NextCode == CodeOpen \/ CodeSkip \/ CodeClose \/ CodeAppend \/ CodeReturn

SpecCode == InitCode /\ [][NextCode]_vars

-----------------------------------------------------------------------------
(* test_no_broken_emphasis (src/tests/test_markdown_syntax.py) *)

\* the line as it is, code spans included
WithoutCodeSpans_Kept(line) == line

\* re.sub(r'`[^`]+`', '', line): from left to right, a backtick, at least one
\* character that is no backtick, and the next backtick are removed
RECURSIVE WithoutCodeSpansFrom(_, _)
WithoutCodeSpansFrom(s, p) ==
    IF p > Len(s) THEN <<>>
    ELSE LET q == IF s[p] = BT THEN IndexOf(s, BT, p + 1) ELSE 0
         IN  IF q > p + 1 THEN WithoutCodeSpansFrom(s, q + 1)
             ELSE <<s[p]>> \o WithoutCodeSpansFrom(s, p + 1)

WithoutCodeSpans(line) == WithoutCodeSpansFrom(line, 1)

\* 'if asterisks > 1 and asterisks % 2 == 1'; the underscores are counted
\* and not used
UnmatchedAsterisks(line) ==
    LET line_no_code == WithoutCodeSpans(line)
        asterisks == Count(line_no_code, "*")
    IN  asterisks > 1 /\ asterisks % 2 = 1

\* line.strip().startswith('```')
EmFenceLine(line) == StartsWith(Strip(line), Fence)

\* a fence line flips in_code_block and is not looked at further
EmFence ==
    /\ pc = "scan" /\ i <= Len(lines)
    /\ EmFenceLine(lines[i])
    /\ in_code_block' = ~in_code_block
    /\ i' = i + 1
    /\ UNCHANGED <<pc, docVars, current_block, start_line, code_blocks,
                   chkVars, tblVars, hdVars, emVars, result>>

\* a line outside a block with an odd number of asterisks above one
EmSuspicious ==
    /\ pc = "scan" /\ i <= Len(lines)
    /\ ~EmFenceLine(lines[i])
    /\ ~in_code_block
    /\ UnmatchedAsterisks(lines[i])
    /\ suspicious_lines' =
          Append(suspicious_lines, [line |-> i, issue |-> "possibly unmatched asterisks"])
    /\ i' = i + 1
    /\ UNCHANGED <<pc, docVars, codeVars, chkVars, tblVars, hdVars, result>>

\* any other line
EmOther ==
    /\ pc = "scan" /\ i <= Len(lines)
    /\ ~EmFenceLine(lines[i])
    /\ in_code_block \/ ~UnmatchedAsterisks(lines[i])
    /\ i' = i + 1
    /\ UNCHANGED <<pc, docVars, codeVars, chkVars, tblVars, hdVars, emVars, result>>

\* assert len(suspicious_lines) < 3
EmAssert ==
    /\ pc = "scan" /\ i > Len(lines)
    /\ pc' = "done"
    /\ result' = [test |-> "test_no_broken_emphasis",
                  passed |-> Len(suspicious_lines) < 3,
                  diag |-> suspicious_lines]
    /\ UNCHANGED <<docVars, i, scanVars>>

\* the lines the emphasis specification draws its documents from
Stars3 == <<"*", "*", "*">>
Star1 == <<"*">>
SpanStars == <<BT, "*", BT, "*", "*">>
Under3 == <<"_", "_", "_">>
UnclosedSpan == <<BT, "*", "*", "*">>
IndentedFence == <<" ", BT, BT, BT>>
TaggedFence == <<BT, BT, BT, "p", "y">>

EmLineSet ==
    { Stars3, Star1, SpanStars, UnclosedSpan, Under3, Fence, IndentedFence, TaggedFence }

MaxEmLines == 4

InitEm ==
    /\ \E doc \in SeqsUpTo(EmLineSet, MaxEmLines) :
          /\ content = Join(doc, NL)
          /\ lines = Split(Join(doc, NL))
    /\ content2 = <<>>
    /\ pc = "scan"
    /\ i = 1
    /\ AllIdle

NextEm == EmFence \/ EmSuspicious \/ EmOther \/ EmAssert

SpecEm == InitEm /\ [][NextEm]_vars

-----------------------------------------------------------------------------
(* The advisory checks test_no_bare_urls and test_no_smart_quotes
   (src/tests/test_markdown_syntax.py), on the two files content and content2 *)

Http == <<"h", "t", "t", "p">>

\* the text holds sub from position p on
HoldsAt(s, p, sub) ==
    /\ p + Len(sub) - 1 <= Len(s)
    /\ \A k \in 1..Len(sub) : s[p + k - 1] = sub[k]

\* 'https?://' tried at position p: the position after it, or 0
SchemeEnd(s, p) ==
    LET q == IF HoldsAt(s, p, Http)
             THEN (IF p + 4 <= Len(s) /\ s[p + 4] = "s" THEN p + 5 ELSE p + 4)
             ELSE 0
    IN  IF q # 0 /\ HoldsAt(s, q, <<":", "/", "/">>) THEN q + 3 ELSE 0

\* url_pattern = r'(?<!\()(https?://[^\s\)]+)(?!\))' tried at position p: no
\* '(' before p, the scheme, the longest run of characters that are neither
\* whitespace nor ')', given up by one character when a ')' follows it.  The
\* position of the last character of the match, or 0.
UrlMatchAt(s, p) ==
    LET r == SchemeEnd(s, p)
        n == IF r = 0 THEN 0 ELSE RunLen(s, r, Range(s) \ (Whitespace \cup {")"}))
        e == r + n - 1
    IN  IF (p > 1 /\ s[p - 1] = "(") \/ r = 0 \/ n = 0 THEN 0
        ELSE IF e < Len(s) /\ s[e + 1] = ")"
             THEN (IF n >= 2 THEN e - 1 ELSE 0)
             ELSE e

\* the length match.group(1) is cut to
UrlShown == 50

\* url_pattern.search(line): the first match from the left, cut to UrlShown
\* characters, or <<>> when there is none
RECURSIVE UrlSearchFrom(_, _)
UrlSearchFrom(s, p) ==
    IF p > Len(s) THEN <<>>
    ELSE LET e == UrlMatchAt(s, p)
         IN  IF e = 0 THEN UrlSearchFrom(s, p + 1)
             ELSE SubSeq(s, p, IF e - p + 1 > UrlShown THEN p + UrlShown - 1 ELSE e)

\* 'http' in line and '](http' not in line and '`http' not in line
LooksBare(line) ==
    /\ Contains(line, Http)
    /\ ~Contains(line, <<"]", "(">> \o Http)
    /\ ~Contains(line, <<BT>> \o Http)

\* the entries the lines k.. of one file add to bare_urls, in_block being
\* in_code_block before line k
RECURSIVE BareUrlsFrom(_, _, _, _)
BareUrlsFrom(file, ls, k, in_block) ==
    IF k > Len(ls) THEN <<>>
    ELSE IF StartsWith(Strip(ls[k]), Fence) THEN BareUrlsFrom(file, ls, k + 1, ~in_block)
    ELSE (IF ~in_block /\ LooksBare(ls[k]) /\ UrlSearchFrom(ls[k], 1) # <<>>
          THEN << [file |-> file, line |-> k, url |-> UrlSearchFrom(ls[k], 1)] >>
          ELSE <<>>)
         \o BareUrlsFrom(file, ls, k + 1, in_block)

\* a check that asserts that nothing was found
Advisory_Asserting(found) == found = <<>>

\* the end of an advisory check: 'if found: print(...)' and no assert, so the
\* test returns and passes whatever was found
Advisory(found) == TRUE

TestNoBareUrls ==
    /\ pc = "start"
    /\ pc' = "done"
    /\ LET bare_urls == BareUrlsFrom("content", Split(content), 1, FALSE)
                        \o BareUrlsFrom("content2", Split(content2), 1, FALSE)
       IN  result' = [test |-> "test_no_bare_urls",
                      passed |-> Advisory(bare_urls),
                      diag |-> bare_urls]
    /\ UNCHANGED <<docVars, i, scanVars>>

\* smart_quotes as the source file has it: the four quotes of the list are
\* straight ones, so the list is '"', '"' and the triple-quoted string ', '
smart_quotes == << <<"\"">>, <<"\"">>, <<",", " ">> >>

\* [q for q in smart_quotes if q in content]
RECURSIVE FoundSmartFrom(_, _)
FoundSmartFrom(text, k) ==
    IF k > Len(smart_quotes) THEN <<>>
    ELSE (IF Contains(text, smart_quotes[k]) THEN << smart_quotes[k] >> ELSE <<>>)
         \o FoundSmartFrom(text, k + 1)

SmartQuoteEntry(file, text) ==
    IF FoundSmartFrom(text, 1) # <<>>
    THEN << [file |-> file, quotes |-> FoundSmartFrom(text, 1)] >>
    ELSE <<>>

TestNoSmartQuotes ==
    /\ pc = "start"
    /\ pc' = "done"
    /\ LET smart_quote_files == SmartQuoteEntry("content", content)
                                \o SmartQuoteEntry("content2", content2)
       IN  result' = [test |-> "test_no_smart_quotes",
                      passed |-> Advisory(smart_quote_files),
                      diag |-> smart_quote_files]
    /\ UNCHANGED <<docVars, i, scanVars>>

\* the lines the advisory specification draws its files from
UrlA == <<"h","t","t","p",":","/","/","a">>
UrlInParens == <<"(">> \o UrlA \o <<")">>
UrlAsLink == <<"]", "(">> \o UrlA \o <<")">>
UrlInCode == <<BT>> \o UrlA
UrlThenParen == <<"h","t","t","p","s",":","/","/","a","b",")">>
UrlTwo == <<"h","t","t","p",":","/","/","a",")"," ">> \o UrlA
Quoted == <<"\"", "a", "\"", ",", " ", "b">>

AdvLineSet == { UrlA, UrlInParens, UrlAsLink, UrlInCode, UrlThenParen, UrlTwo, Quoted, Fence }

MaxAdvLines == 3

\* the second file: empty, a bare URL, or a URL inside a fenced block
SecondAdvFiles == { <<>>, UrlA, Join(<<Fence, UrlA, Fence>>, NL) }

InitAdv ==
    /\ \E doc \in SeqsUpTo(AdvLineSet, MaxAdvLines) : content = Join(doc, NL)
    /\ content2 \in SecondAdvFiles
    /\ lines = <<>>
    /\ pc = "start"
    /\ i = 1
    /\ AllIdle

NextAdv == TestNoBareUrls \/ TestNoSmartQuotes

SpecAdv == InitAdv /\ [][NextAdv]_vars

-----------------------------------------------------------------------------
(* TestCondensedVersionConsistency (src/tests/test_consistency.py): the five
   tests of the class, each reading the condensed file, which is content2;
   content is the main file *)

required_phases ==
    << <<"P","h","a","s","e"," ","1">>,
       <<"P","h","a","s","e"," ","2">>,
       <<"P","h","a","s","e"," ","3">>,
       <<"P","h","a","s","e"," ","4">>,
       <<"P","h","a","s","e"," ","5">> >>

phase_terms ==
    << <<"C","o","m","p","r","e","h","e","n","s","i","o","n">>,
       <<"S","t","r","a","t","e","g","y">>,
       <<"E","x","e","c","u","t","i","o","n">>,
       <<"R","e","v","i","e","w">>,
       <<"R","e","f","i","n","e","m","e","n","t">> >>

\* 'phase_num in content or phase_name in content', for each of the five
HasCorePhases(text) ==
    \A k \in 1..Len(required_phases) :
        Contains(text, required_phases[k]) \/ Contains(text, phase_terms[k])

\* 'Chain-of-Thought' in content or 'CoT' in content
HasChainOfThought(text) ==
    Contains(text, <<"C","h","a","i","n","-","o","f","-","T","h","o","u","g","h","t">>)
    \/ Contains(text, <<"C","o","T">>)

\* 'Code Generation' in content or 'code generation' in content.lower()
HasCodeGeneration(text) ==
    Contains(text, <<"C","o","d","e"," ","G","e","n","e","r","a","t","i","o","n">>)
    \/ Contains(Lower(text), <<"c","o","d","e"," ","g","e","n","e","r","a","t","i","o","n">>)

checklist_terms ==
    << <<"P","r","e","-","R","e","s","p","o","n","s","e">>,
       <<"P","o","s","t","-","R","e","s","p","o","n","s","e">>,
       <<"Q","u","a","l","i","t","y">>,
       <<"C","h","e","c","k","l","i","s","t">> >>

\* assert len(found_terms) >= 2
ChecklistTermsMin == 2

\* found_terms counted
HasChecklists(text) ==
    Cardinality({k \in 1..Len(checklist_terms) : Contains(text, checklist_terms[k])})
        >= ChecklistTermsMin

correction_terms ==
    << <<"S","e","l","f","-","C","o","r","r","e","c","t","i","o","n">>,
       <<"s","e","l","f","-","c","o","r","r","e","c","t","i","o","n">>,
       <<"A","c","c","u","r","a","c","y">>,
       <<"C","o","m","p","l","e","t","e","n","e","s","s">> >>

\* any(term in content for term in correction_terms)
HasSelfCorrection(text) ==
    \E k \in 1..Len(correction_terms) : Contains(text, correction_terms[k])

\* the tests of the class
CondensedTests ==
    {"test_condensed_has_core_phases", "test_condensed_has_chain_of_thought",
     "test_condensed_has_code_generation", "test_condensed_has_checklists",
     "test_condensed_has_self_correction"}

\* a check that reads the main file
CondensedText_Main == content

\* claude_skill_path.read_text(encoding='utf-8'): every test of the class
\* reads the condensed file and no other
CondensedText == content2

\* no test of the class has run
NoCondensedRun == [test |-> "TestCondensedVersionConsistency", passed |-> TRUE, diag |-> {}]

HasRun(test) == \E r \in result.diag : r.test = test

\* one test of the class runs and its outcome is recorded
CondensedTest(test, ok) ==
    /\ pc = "start"
    /\ ~HasRun(test)
    /\ result' = [result EXCEPT !.passed = @ /\ ok,
                                !.diag = @ \cup {[test |-> test, passed |-> ok]}]
    /\ pc' = IF \A t \in CondensedTests \ {test} : HasRun(t) THEN "done" ELSE "start"
    /\ UNCHANGED <<docVars, i, scanVars>>

TestCondensedHasCorePhases ==
    CondensedTest("test_condensed_has_core_phases", HasCorePhases(CondensedText))

TestCondensedHasChainOfThought ==
    CondensedTest("test_condensed_has_chain_of_thought", HasChainOfThought(CondensedText))

TestCondensedHasCodeGeneration ==
    CondensedTest("test_condensed_has_code_generation", HasCodeGeneration(CondensedText))

TestCondensedHasChecklists ==
    CondensedTest("test_condensed_has_checklists", HasChecklists(CondensedText))

TestCondensedHasSelfCorrection ==
    CondensedTest("test_condensed_has_self_correction", HasSelfCorrection(CondensedText))

\* the lines the condensed specification draws its files from
CondWords ==
    << <<"P","h","a","s","e"," ","1",","," ","P","h","a","s","e"," ","2",","," ","P","h","a","s","e"," ","3",","," ","P","h","a","s","e"," ","4">>,
       <<"P","h","a","s","e"," ","5">>,
       <<"R","e","f","i","n","e","m","e","n","t">>,
       <<"C","o","T">>,
       <<"C","O","D","E"," ","G","E","N","E","R","A","T","I","O","N">>,
       <<"P","r","e","-","R","e","s","p","o","n","s","e">>,
       <<"Q","u","a","l","i","t","y">>,
       <<"A","c","c","u","r","a","c","y">>,
       <<"c","h","e","c","k","l","i","s","t">> >>

\* the most lines a condensed file has
MaxCondWords == 7

CondDocuments ==
    { Join(Chosen(CondWords, chosen, 1), NL) :
        chosen \in {c \in SUBSET (1..Len(CondWords)) : Cardinality(c) <= MaxCondWords} }

\* the main file: empty, one topic, or every line there is
MainDocuments == { <<>>, CondWords[4], Join(CondWords, NL) }

InitCond ==
    /\ content \in MainDocuments
    /\ content2 \in CondDocuments
    /\ lines = <<>>
    /\ pc = "start"
    /\ i = 1
    /\ CodeIdle /\ ChkIdle /\ TblIdle /\ HdIdle /\ EmIdle
    /\ result = NoCondensedRun

NextCond ==
    \/ TestCondensedHasCorePhases
    \/ TestCondensedHasChainOfThought
    \/ TestCondensedHasCodeGeneration
    \/ TestCondensedHasChecklists
    \/ TestCondensedHasSelfCorrection

SpecCond == InitCond /\ [][NextCond]_vars

-----------------------------------------------------------------------------
(* extract_checklists on documents with rules and fence lines *)

Rule == <<"-", "-", "-">>

GrpLineSet == { <<>>, HeadingT, HeadingS, ItemA, ItemB, Rule, Fence }

MaxGrpLines == 4

InitGrp ==
    /\ \E doc \in SeqsUpTo(GrpLineSet, MaxGrpLines) :
          /\ content = Join(doc, NL)
          /\ lines = Split(Join(doc, NL))
    /\ content2 = <<>>
    /\ pc = "scan"
    /\ i = 1
    /\ AllIdle

NextGrp == ExtractChecklists

SpecGrp == InitGrp /\ [][NextGrp]_vars

-----------------------------------------------------------------------------
(* The two extractors called on one text, one after the other, twice each *)

OtherExtractor(e) ==
    IF e = "extract_code_blocks" THEN "extract_checklists" ELSE "extract_code_blocks"

\* the calls made, from the first on; result.test is the extractor called
\* first and result.diag holds what the calls returned so far
CallsFrom(first) == <<first, OtherExtractor(first), first, OtherExtractor(first)>>

\* extractor e is the one running
Running(e) ==
    /\ Len(result.diag) < Len(CallsFrom(result.test))
    /\ CallsFrom(result.test)[Len(result.diag) + 1] = e

\* a section kept from the call before
FreshSection_Kept(left) == left

\* current_section = "Unknown" at the start of a call, whatever the call
\* before left
FreshSection(left) == Unknown

\* the running call has returned: its value is kept in result.diag and, when
\* calls remain, the next one starts with its locals set as its first lines
\* set them
CallReturns ==
    /\ pc = "done"
    /\ Len(result.diag) < Len(CallsFrom(result.test))
    /\ result' = [result EXCEPT !.diag =
                    Append(@, IF Running("extract_code_blocks") THEN code_blocks ELSE checklists)]
    /\ IF Len(result.diag) + 1 = Len(CallsFrom(result.test))
       THEN UNCHANGED <<pc, docVars, i, scanVars>>
       ELSE /\ pc' = "scan"
            /\ lines' = Split(content)
            /\ i' = 1
            /\ IF Running("extract_checklists")
               THEN /\ code_blocks' = <<>>
                    /\ in_code_block' = FALSE
                    /\ current_block' = NoBlock
                    /\ start_line' = 0
                    /\ UNCHANGED chkVars
               ELSE /\ checklists' = <<>>
                    /\ current_section' = FreshSection(current_section)
                    /\ current_checklist' = NoChecklist
                    /\ UNCHANGED codeVars
            /\ UNCHANGED <<content, content2, tblVars, hdVars, emVars>>

TwiceLineSet == { HeadingT, ItemA, Fence, ProseP }

MaxTwiceLines == 4

InitTwice ==
    /\ \E doc \in SeqsUpTo(TwiceLineSet, MaxTwiceLines) :
          /\ content = Join(doc, NL)
          /\ lines = Split(Join(doc, NL))
    /\ content2 = <<>>
    /\ pc = "scan"
    /\ i = 1
    /\ CodeIdle /\ ChkIdle /\ TblIdle /\ HdIdle /\ EmIdle
    /\ \E first \in {"extract_code_blocks", "extract_checklists"} :
          result = [test |-> first, passed |-> TRUE, diag |-> <<>>]

NextTwice ==
    \/ Running("extract_code_blocks") /\ NextCode
    \/ Running("extract_checklists") /\ ExtractChecklists
    \/ CallReturns

SpecTwice == InitTwice /\ [][NextTwice]_vars

-----------------------------------------------------------------------------
(* test_markdown_code_blocks_well_formed and extract_code_blocks on one file *)

\* extract_code_blocks(content) is called once the fence-count check is over:
\* 'lines = content.split('\n')' and the locals before the loop
CallExtractCodeBlocks ==
    /\ pc = "done"
    /\ result.test = "test_markdown_code_blocks_well_formed"
    /\ lines = <<>>
    /\ lines' = Split(content)
    /\ i' = 1
    /\ pc' = "scan"
    /\ code_blocks' = <<>>
    /\ in_code_block' = FALSE
    /\ current_block' = NoBlock
    /\ start_line' = 0
    /\ UNCHANGED <<content, content2, notCode, result>>

AgreeLineSet == CodeLineSet \cup FenceLineSet

MaxAgreeLines == 4

InitAgree ==
    /\ \E doc \in SeqsUpTo(AgreeLineSet, MaxAgreeLines) : content = Join(doc, NL)
    /\ content2 = <<>>
    /\ lines = <<>>
    /\ pc = "start"
    /\ i = 1
    /\ AllIdle

NextAgree == TestMarkdownCodeBlocksWellFormed \/ CallExtractCodeBlocks \/ NextCode

SpecAgree == InitAgree /\ [][NextAgree]_vars

-----------------------------------------------------------------------------
(* TestFullVersionConsistency and test_full_copies_have_same_sections on one
   pair of files (src/tests/test_consistency.py) *)

\* a count of the lines of the file as stored, without the translation of
\* line ends
LineCount_Untranslated(file) == Len(Split(file))

\* len(path.read_text(encoding='utf-8').split('\n'))
LineCount(file) == Len(Split(ReadText(file)))

\* test_main_and_cskill_line_counts_match
TestMainAndCskillLineCountsMatch ==
    /\ pc = "start"
    /\ pc' = "done"
    /\ result' = [test |-> "test_main_and_cskill_line_counts_match",
                  passed |-> LineCount(content) = LineCount(content2),
                  diag |-> <<LineCount(content), LineCount(content2)>>]
    /\ UNCHANGED <<docVars, i, scanVars>>

\* the lines and the line ends the files of the full-copy specification are
\* made of
FullLineSet == { <<"#", "#", " ", "A">>, <<"#", "#", " ", "a">>, <<"b">> }
LineEnds == { <<NL>>, <<CR>>, <<CR, NL>> }

MaxFullLines == 2

\* a file: lines, each but the last followed by the same line end
FullFile(doc, e) ==
    Concat([k \in 1..(2 * Len(doc) - 1) |->
              IF k % 2 = 1 THEN doc[(k + 1) \div 2] ELSE e])

\* the copies of a document: the document itself, the document with another
\* first line, and the document with one more line
CopiesOf(doc) ==
    { [doc EXCEPT ![1] = l] : l \in FullLineSet } \cup { Append(doc, <<"b">>) }

\* the main file has '\n' line ends, the copy any of the three
InitFull ==
    /\ \E doc \in SeqsUpTo(FullLineSet, MaxFullLines) :
          /\ content = FullFile(doc, <<NL>>)
          /\ \E copy \in CopiesOf(doc), e \in LineEnds : content2 = FullFile(copy, e)
    /\ lines = <<>>
    /\ pc = "start"
    /\ i = 1
    /\ AllIdle

NextFull ==
    \/ TestMainAndCskillIdentical
    \/ TestMainAndCskillLineCountsMatch
    \/ TestFullCopiesHaveSameSections

SpecFull == InitFull /\ [][NextFull]_vars

-----------------------------------------------------------------------------
(* test_full_copies_have_same_sections on headings that differ in case,
   digits and punctuation *)

SecPhase1 == <<"#","#"," ","P","h","a","s","e"," ","1">>
SecPhase2 == <<"#","#"," ","P","h","a","s","e"," ","2">>
SecPhases == <<"#","#"," ","P","h","a","s","e","s">>
SecOverviewLoud == <<"#","#"," ","O","V","E","R","V","I","E","W","!">>

NormLineSet == { SecOverview, SecOverviewLoud, SecPhase1, SecPhase2, SecPhases }

MaxNormLines == 2

InitNorm ==
    /\ \E doc \in SeqsUpTo(NormLineSet, MaxNormLines) : content = Join(doc, NL)
    /\ \E doc \in SeqsUpTo(NormLineSet, MaxNormLines) : content2 = Join(doc, NL)
    /\ lines = <<>>
    /\ pc = "start"
    /\ i = 1
    /\ AllIdle

NextNorm == TestFullCopiesHaveSameSections

SpecNorm == InitNorm /\ [][NextNorm]_vars

-----------------------------------------------------------------------------
(* Claims on extract_checklists *)

\* the text of each heading and item line of ChkLineSet, read off the line
LineText(l) ==
    CASE l = HeadingT -> <<"T">>
      [] l = ItemA -> <<"a">>
      [] l = ItemB -> <<"b">>

\* the document is a heading line, then K >= 1 item lines, then a blank line,
\* then one line that is no heading, no item and not blank
HeadingItemsBlankProse ==
    /\ Len(lines) >= 4
    /\ lines[1] = HeadingT
    /\ \A k \in 2..(Len(lines) - 2) : lines[k] \in {ItemA, ItemB}
    /\ lines[Len(lines) - 1] = <<>>
    /\ lines[Len(lines)] \in {ProseP, ListN}

\* C2: for a heading, K >= 1 checklist items, a blank line and a prose line,
\* exactly one group is returned: its items are the K item texts in order, its
\* section is the heading's text and its line_number is the line of the first
\* item (line 2).
C2_ChecklistGrouping ==
    (pc = "done" /\ HeadingItemsBlankProse) =>
        checklists =
            << [section |-> LineText(lines[1]),
                items |-> [k \in 1..(Len(lines) - 3) |-> LineText(lines[k + 1])],
                line_number |-> 2] >>

\* the extractor returned on such a document with K = 2 different items
C2_Witness ==
    /\ pc = "done" /\ HeadingItemsBlankProse
    /\ Len(lines) = 5
    /\ lines[2] # lines[3]
    /\ Len(checklists) = 1

\* C3: in every state of the scan and in the returned list, every emitted
\* group has at least one item.
C3_NoEmptyGroup ==
    \A k \in 1..Len(checklists) : Len(checklists[k].items) >= 1

\* two groups were returned from a document in which a heading is followed at
\* once by another heading (a section with no item)
C3_Witness ==
    /\ pc = "done"
    /\ Len(checklists) >= 2
    /\ \E k \in 1..(Len(lines) - 1) : lines[k] = HeadingT /\ lines[k + 1] = HeadingT

\* the heading lines of ChkLineSet and their texts, read off the lines
IsHeadingLine(l) == l \in {HeadingT, HeadingS}
HeadingTextOf(l) == IF l = HeadingT THEN <<"T">> ELSE <<"S">>

\* the numbers of the heading lines before line n
HeadingsBefore(n) == {k \in 1..(n - 1) : IsHeadingLine(lines[k])}

\* the text of the nearest heading line before line n, or the sentinel
NearestHeadingText(n) ==
    IF HeadingsBefore(n) = {} THEN Unknown
    ELSE HeadingTextOf(lines[CHOOSE k \in HeadingsBefore(n) :
                                 \A j \in HeadingsBefore(n) : j <= k])

\* C14: the section of every emitted group is the text of the nearest heading
\* line, of any level, before the group's first item, also when prose lies
\* between the two, and is 'Unknown' when no heading precedes the first item.
C14_NearestHeading ==
    \A k \in 1..Len(checklists) :
        checklists[k].section = NearestHeadingText(checklists[k].line_number)

\* a group under the second of two headings, with prose between that heading
\* and the group's first item
C14_Witness ==
    /\ pc = "done"
    /\ \E k \in 1..Len(checklists) :
          LET n == checklists[k].line_number
          IN  /\ n >= 4
              /\ lines[n - 1] = ProseP
              /\ lines[n - 2] = HeadingS
              /\ HeadingT \in {lines[j] : j \in 1..(n - 3)}
              /\ checklists[k].section = <<"S">>

\* the second call has returned
BothExtracted == pc = "done" /\ result.test = "extract_checklists"

\* the text after the box of an item line of the two-document specification,
\* without surrounding whitespace, and nothing for any other line
BoxItemText(l) ==
    IF Len(l) = 7 /\ l[7] = "a" THEN << <<"a">> >>
    ELSE IF Len(l) = 6 /\ l[5] = "b" THEN << <<"b">> >>
    ELSE <<>>

\* the item texts of the lines ls, in order
RECURSIVE BoxItemTexts(_)
BoxItemTexts(ls) ==
    IF ls = <<>> THEN <<>> ELSE BoxItemText(Head(ls)) \o BoxItemTexts(Tail(ls))

\* the items of all groups, in order
RECURSIVE AllItems(_)
AllItems(cls) ==
    IF cls = <<>> THEN <<>> ELSE Head(cls).items \o AllItems(Tail(cls))

\* C15: the groups extract_checklists returns do not depend on the
\* characters in the boxes: two documents that differ only in the boxes of
\* their item lines, each holding a space, x or X, give the same sequence of
\* groups, and each item text is the text after the box without leading and
\* trailing whitespace.
C15_BoxIndependence ==
    BothExtracted =>
        /\ checklists = result.diag
        /\ AllItems(checklists) = BoxItemTexts(Split(content2))
        /\ AllItems(result.diag) = BoxItemTexts(Split(content))

\* both calls returned a group for two documents whose boxes differ, one of
\* them with an upper-case X
C15_Witness ==
    /\ BothExtracted
    /\ content # content2
    /\ "X" \in Range(content2)
    /\ Len(checklists) >= 1
    /\ Len(AllItems(checklists)) >= 2

-----------------------------------------------------------------------------
(* Claims on test_checklist_items_are_questions_or_statements *)

SubRan == result.test = "test_checklist_items_are_questions_or_statements"

\* the item lines of SubLineSet whose text has fewer than 10 characters:
\* 'a' and 'Check it.'
ShortItemLines == {k \in 1..Len(lines) : lines[k] \in {ItemA, ItemNine}}

\* the items of the reported entries, in order
ReportedItems == [k \in 1..Len(result.diag) |-> result.diag[k].item]

\* the texts of the short item lines, in line order
RECURSIVE ShortTextsFrom(_)
ShortTextsFrom(k) ==
    IF k > Len(lines) THEN <<>>
    ELSE (IF lines[k] = ItemA THEN << <<"a">> >>
          ELSE IF lines[k] = ItemNine THEN << SubSeq(ItemNine, 7, 15) >>
          ELSE <<>>)
         \o ShortTextsFrom(k + 1)

\* C16: the item-substance check flags exactly the extracted items shorter
\* than 10 characters, whatever their first character, and fails iff at least
\* 3 items are flagged across all groups; with 0, 1 or 2 short items it
\* passes.
C16_ItemSubstance ==
    SubRan =>
        /\ ReportedItems = ShortTextsFrom(1)
        /\ ~result.passed <=> Cardinality(ShortItemLines) >= 3
        /\ Cardinality(ShortItemLines) \in {0, 1, 2} => result.passed

\* the check passed with two short items and an item of ten characters that
\* starts with a lower-case letter
C16_Witness ==
    /\ SubRan
    /\ result.passed
    /\ Cardinality(ShortItemLines) = 2
    /\ ItemTen \in Range(lines)

-----------------------------------------------------------------------------
(* Claims on test_checklist_items_actionable *)

ActRan == result.test = "test_checklist_items_actionable"

\* what each line of ActLineSet is, read off the line: the number of words of
\* its item, whether the item starts with a lead word when case is ignored
\* ('Issue' starts with 'is'), whether it holds a '?', and whether it holds a
\* verification word ('VALID' holds 'valid')
ActFacts(l) ==
    CASE l = ActRunIt -> [words |-> 2, lead |-> FALSE, question |-> FALSE, verification |-> FALSE]
      [] l = ActRunAllNow -> [words |-> 3, lead |-> FALSE, question |-> FALSE, verification |-> FALSE]
      [] l = ActIssue -> [words |-> 1, lead |-> TRUE, question |-> FALSE, verification |-> FALSE]
      [] l = ActStopQ -> [words |-> 1, lead |-> FALSE, question |-> TRUE, verification |-> FALSE]
      [] l = ActValid -> [words |-> 1, lead |-> FALSE, question |-> FALSE, verification |-> TRUE]

\* the rule of C17
StatedFlag(f) == f.words < 3 /\ ~f.lead /\ ~f.question /\ ~f.verification

\* the item texts of the item lines C17 flags, in line order
RECURSIVE StatedFlaggedFrom(_)
StatedFlaggedFrom(k) ==
    IF k > Len(lines) THEN <<>>
    ELSE (IF lines[k] \in ActLineSet /\ StatedFlag(ActFacts(lines[k]))
          THEN << SubSeq(lines[k], 7, Len(lines[k])) >>
          ELSE <<>>)
         \o StatedFlaggedFrom(k + 1)

\* C17: the actionability check flags an item iff it has fewer than three
\* words, starts with no lead word when case is ignored, holds no '?' and
\* holds no verification word; it fails iff at least 5 items are flagged, and
\* an item of three or more words is never flagged.
C17_Actionability ==
    ActRan =>
        /\ [k \in 1..Len(result.diag) |-> result.diag[k].item] = StatedFlaggedFrom(1)
        /\ ~result.passed <=> Len(StatedFlaggedFrom(1)) >= 5
        /\ \A k \in 1..Len(result.diag) : WordCount(result.diag[k].item) < 3

\* the check passed with four flagged items beside an item of three words
C17_Witness ==
    /\ ActRan
    /\ result.passed
    /\ Len(result.diag) = 4
    /\ ActRunAllNow \in Range(lines)

-----------------------------------------------------------------------------
(* Claims on test_no_duplicate_checklist_items *)

CheckInputUpper == <<"C","h","e","c","k"," ","i","n","p","u","t">>
CheckInputLower == <<"c","h","e","c","k"," ","i","n","p","u","t">>

\* the item texts DupLineSet can yield, by what they are after lower-casing
\* and trimming: 1 for the variants of 'Check input', 2 for 'b'
ItemClass(text) ==
    CASE text = CheckInputUpper -> 1
      [] text = CheckInputLower -> 1
      [] text = <<"b">> -> 2

\* how often an item of class c occurs in a group
ClassCount(cl, c) == Cardinality({k \in 1..Len(cl.items) : ItemClass(cl.items[k]) = c})

\* the classes that occur more than once in a group
RepeatedClasses(cl) == {c \in {1, 2} : ClassCount(cl, c) > 1}

RECURSIVE RepeatedTotal(_)
RepeatedTotal(cls) ==
    IF cls = <<>> THEN 0
    ELSE Cardinality(RepeatedClasses(Head(cls))) + RepeatedTotal(Tail(cls))

DupRan == result.test = "test_no_duplicate_checklist_items"

\* C8: the duplicate check compares the items of one group after lower-casing
\* and trimming.  It passes iff no group has two items equal after that
\* normalization (repeats across groups do not count); it reports one entry
\* per group and repeated item, with the number of its occurrences; the group
\* 'Check input', 'check input', 'Check input ' yields exactly one entry, with
\* count 3, and the check fails.
C8_DuplicateDetection ==
    DupRan =>
        /\ result.passed <=> (\A g \in 1..Len(checklists) : RepeatedClasses(checklists[g]) = {})
        /\ Len(result.diag) = RepeatedTotal(checklists)
        /\ \A e \in 1..Len(result.diag) :
              \E g \in 1..Len(checklists) :
                 /\ result.diag[e].section = checklists[g].section
                 /\ ItemClass(result.diag[e].item) \in RepeatedClasses(checklists[g])
                 /\ result.diag[e].count =
                        ClassCount(checklists[g], ItemClass(result.diag[e].item))
        /\ (\E k \in 1..(Len(lines) - 2) :
               /\ lines[k] = ItemCheck1 /\ lines[k + 1] = ItemCheck2
               /\ lines[k + 2] = ItemCheck3
               /\ \A j \in 1..Len(lines) : j \notin k..(k + 2) => lines[j] \in {HeadingT, ProseP})
           => /\ ~result.passed
              /\ Len(result.diag) = 1
              /\ result.diag[1].item = CheckInputLower
              /\ result.diag[1].count = 3

\* the check ran on the group 'Check input', 'check input', 'Check input '
C8_Witness ==
    /\ DupRan
    /\ Len(checklists) = 1
    /\ lines = <<HeadingT, ItemCheck1, ItemCheck2, ItemCheck3>>
    /\ ~result.passed

-----------------------------------------------------------------------------
(* Claims on test_heading_hierarchy *)

\* the level of the heading on line k of a document over HdLineSet, read off
\* the line (0: no heading).  A bare run of '#' is a heading only when a line
\* break follows it.
HeadingLevelAt(k) ==
    CASE lines[k] = HeadLine1 -> 1
      [] lines[k] = HeadLine2 -> 2
      [] lines[k] = HeadLine4 -> 4
      [] lines[k] = HeadLine5 -> 5
      [] lines[k] = BareHashes4 -> IF k < Len(lines) THEN 4 ELSE 0
      [] OTHER -> 0

HeadingLineNumbers == {k \in 1..Len(lines) : HeadingLevelAt(k) > 0}

\* heading j is the heading right before heading k
Consecutive(j, k) ==
    /\ j \in HeadingLineNumbers /\ k \in HeadingLineNumbers /\ j < k
    /\ \A m \in (j + 1)..(k - 1) : m \notin HeadingLineNumbers

\* the levels of the headings, in document order
RECURSIVE HeadingLevelsFrom(_)
HeadingLevelsFrom(k) ==
    IF k > Len(lines) THEN <<>>
    ELSE (IF HeadingLevelAt(k) > 0 THEN <<HeadingLevelAt(k)>> ELSE <<>>)
         \o HeadingLevelsFrom(k + 1)

HdRan == result.test = "test_heading_hierarchy"

\* C9: the heading-hierarchy check fails iff some heading other than the
\* first has a level greater than the level of the heading right before it
\* plus 2; H1, H2, H4 passes and H1, H2, H5 fails; the first heading may have
\* any level and no decrease is flagged.
C9_HeadingJump ==
    HdRan =>
        /\ ~result.passed <=>
              \E j, k \in 1..Len(lines) :
                 Consecutive(j, k) /\ HeadingLevelAt(k) > HeadingLevelAt(j) + 2
        /\ HeadingLevelsFrom(1) = <<1, 2, 4>> => result.passed
        /\ HeadingLevelsFrom(1) = <<1, 2, 5>> => ~result.passed
        /\ \A e \in 1..Len(result.diag) : result.diag[e].to > result.diag[e].from + 2

\* the check failed on H1, H2, H5
C9_Witness ==
    /\ HdRan
    /\ HeadingLevelsFrom(1) = <<1, 2, 5>>
    /\ ~result.passed

-----------------------------------------------------------------------------
(* Claims on test_tables_well_formed *)

\* the number of '|' of each line of TblLineSet, read off the line
PipesOf(l) ==
    CASE l = Row3 -> 3
      [] l = Row2 -> 2
      [] l = Row1 -> 1
      [] OTHER -> 0

\* the first row of the table region line k lies in: the first line of the
\* longest run of lines with '|' that ends at k
RegionFirst(k) ==
    CHOOSE j \in 1..k :
        /\ \A m \in j..k : PipesOf(lines[m]) > 0
        /\ j = 1 \/ PipesOf(lines[j - 1]) = 0

\* the lines with '|' whose pipe count differs from their region's first row
MismatchedRows ==
    {k \in 1..Len(lines) :
        /\ PipesOf(lines[k]) > 0
        /\ PipesOf(lines[k]) # PipesOf(lines[RegionFirst(k)])}

TblRan == result.test = "test_tables_well_formed"

\* every mismatched row is flagged with its 1-based line number, once, and
\* nothing else is flagged; the check fails iff a row is flagged
FlagsMismatchedRows ==
    /\ {result.diag[e].line : e \in 1..Len(result.diag)} = MismatchedRows
    /\ Len(result.diag) = Cardinality(MismatchedRows)
    /\ result.passed <=> MismatchedRows = {}

\* lines k, k+1, k+2 are the only lines with '|' and the second has one pipe
\* fewer than the first
ThreeRowBlock(k) ==
    /\ k + 2 <= Len(lines)
    /\ \A m \in 1..Len(lines) : PipesOf(lines[m]) > 0 <=> m \in k..(k + 2)
    /\ PipesOf(lines[k + 1]) = PipesOf(lines[k]) - 1

OneIssueAt(n) ==
    /\ ~result.passed
    /\ Len(result.diag) = 1
    /\ result.diag[1].line = n

\* C10 as stated: every mismatched row of a table region is flagged with its
\* line number, and a three-row block whose second row has one pipe fewer
\* than the first yields exactly one issue, at the second row, and fails.
C10_AsStated ==
    TblRan =>
        /\ FlagsMismatchedRows
        /\ \A k \in 1..Len(lines) : ThreeRowBlock(k) => OneIssueAt(k + 1)

\* C10, amended: as stated, for a three-row block whose third row has the
\* pipe count of the first.
C10_TableColumns ==
    TblRan =>
        /\ FlagsMismatchedRows
        /\ \A k \in 1..Len(lines) :
              (ThreeRowBlock(k) /\ PipesOf(lines[k + 2]) = PipesOf(lines[k]))
                  => OneIssueAt(k + 1)

\* the check ran on a three-row block after a line of prose, the second row
\* one pipe short
C10_Witness ==
    /\ TblRan
    /\ lines = << <<"a">>, Row3, Row2, Row3 >>
    /\ OneIssueAt(3)

-----------------------------------------------------------------------------
(* Claims on test_full_copies_have_same_sections *)

WordOverview == <<"o","v","e","r","v","i","e","w">>
WordPlanning == <<"p","l","a","n","n","i","n","g">>
WordExtra == <<"e","x","t","r","a">>

\* the lines of SecLineSet that are second-level headings with a text
IsH2Line(l) == l \in {SecOverview, SecPlanning, SecExtra, SecOverviewBang}

\* the lower-cased letters and inner spaces of each line of SecLineSet, with
\* no space before or after, read off the line
WordOf(l) ==
    CASE l \in {SecOverview, SecOverviewBang} -> WordOverview
      [] l \in {SecPlanning, SubPlanning} -> WordPlanning
      [] l \in {SecExtra, TitleExtra} -> WordExtra
      [] l = SecBare -> <<>>

\* the heading text of a second-level heading of SecLineSet, lower-cased and
\* without its characters that are neither lowercase letters nor spaces, and
\* not trimmed: 'Overview !' keeps the space before the '!'
UntrimmedOf(l) ==
    IF l = SecOverviewBang THEN WordOverview \o <<" ">> ELSE WordOf(l)

\* the sections as C5 states them: one per second-level heading line
StatedSections(ls) == {UntrimmedOf(ls[k]) : k \in {j \in 1..Len(ls) : IsH2Line(ls[j])}}

\* the sections as the pattern finds them, line by line: a second-level
\* heading with a text gives its trimmed text; a bare '##' that is not the
\* last line takes the whole next line as its text, whatever that line is, and
\* that line is not looked at again; no other line starts a section
RECURSIVE SectionsOfLines(_, _)
SectionsOfLines(ls, k) ==
    IF k > Len(ls) THEN {}
    ELSE IF IsH2Line(ls[k]) THEN {WordOf(ls[k])} \cup SectionsOfLines(ls, k + 1)
    ELSE IF ls[k] = SecBare /\ k < Len(ls)
    THEN {WordOf(ls[k + 1])} \cup SectionsOfLines(ls, k + 2)
    ELSE SectionsOfLines(ls, k + 1)

MainSections == SectionsOfLines(Split(content), 1)
CopySections == SectionsOfLines(Split(content2), 1)

SecRan == result.test = "test_full_copies_have_same_sections"

C6_SectionDiffReporting ==
    SecRan =>
        LET main == MainSections
            copy == CopySections
        IN  /\ result.diag.only_main = main \ copy
            /\ result.diag.only_cskill = copy \ main
            /\ (main = {WordOverview, WordPlanning} /\ copy = {WordOverview, WordExtra})
               => /\ ~result.passed
                  /\ result.diag.only_main = {WordPlanning}
                  /\ result.diag.only_cskill = {WordExtra}

\* the check ran on '## Overview', '## Planning' against '## Overview',
\* '## Extra'
C6_Witness ==
    /\ SecRan
    /\ ~result.passed
    /\ content = Join(<<SecOverview, SecPlanning>>, NL)
    /\ content2 = Join(<<SecOverview, SecExtra>>, NL)

-----------------------------------------------------------------------------
(* Claims on test_link_format_valid *)

LinkRan == result.test = "test_link_format_valid"

\* the file holds the link text piece directly followed by the URL piece
HasPair(file, text, url) == Contains(file, text \o url)

\* a [text](url) pair as C18 wants it: the text is not blank and the URL
\* holds no whitespace anywhere
GoodText(text) == text = TextA
GoodUrl(url) == url = UrlB

AllPairsGood(file) ==
    \A text \in {TextA, TextBlank}, url \in {UrlB, UrlInnerSpace, UrlLeadingSpace} :
        HasPair(file, text, url) => GoodText(text) /\ GoodUrl(url)

\* C18 as stated: the link-format check passes iff every [text](url) pair of
\* every document has a link text that is not blank and a URL with no
\* whitespace anywhere in it; a link [a](b c) makes it fail.
C18_AsStated ==
    LinkRan =>
        /\ result.passed <=> AllPairsGood(content) /\ AllPairsGood(content2)
        /\ HasPair(content, TextA, UrlInnerSpace) => ~result.passed

\* the check passed on a file that is the link [a](b c)
C18_Witness ==
    /\ LinkRan
    /\ result.passed
    /\ content = TextA \o UrlInnerSpace

-----------------------------------------------------------------------------
(* Claims on the topical coverage checks *)

\* phrase occurs in text at position p when letter case is ignored
OccursAt(phrase, text, p) ==
    \A k \in 1..Len(phrase) : LowerChar(text[p + k - 1]) = LowerChar(phrase[k])

\* phrase occurs somewhere in text when letter case is ignored
OccursIgnoringCase(phrase, text) ==
    \E p \in 1..(Len(text) - Len(phrase) + 1) : OccursAt(phrase, text, p)

\* how many of the phrases occur in text
OccurringCount(phrases, text) ==
    Cardinality({k \in 1..Len(phrases) : OccursIgnoringCase(phrases[k], text)})

\* the five checks as C7 lists them: threshold 'of' list length
StatedCoverage ==
    { [test |-> "test_edge_case_checklist_comprehensive",
       phrases |-> required_edge_cases, minimum |-> EdgeCasesMin, threshold |-> 5, listed |-> 7],
      [test |-> "test_security_checklist_comprehensive",
       phrases |-> security_concerns, minimum |-> SecurityConcernsMin, threshold |-> 4, listed |-> 6],
      [test |-> "test_code_quality_checklist_complete",
       phrases |-> quality_aspects, minimum |-> QualityAspectsMin, threshold |-> 4, listed |-> 5],
      [test |-> "test_covers_common_task_types",
       phrases |-> task_types, minimum |-> TaskTypesMin, threshold |-> 3, listed |-> 4],
      [test |-> "test_covers_error_categories",
       phrases |-> error_types, minimum |-> ErrorTypesMin, threshold |-> 3, listed |-> 4] }

\* C7: each topical coverage check passes iff the number of its phrases that
\* occur in the document, letter case ignored, as a substring anywhere, is at
\* least its threshold; the thresholds are 5 of 7, 4 of 6, 4 of 5, 3 of 4 and
\* 3 of 4, each strictly less than the length of its phrase list.
C7_CoverageThreshold ==
    \A c \in StatedCoverage :
        /\ c.minimum = c.threshold
        /\ Len(c.phrases) = c.listed
        /\ c.threshold < Len(c.phrases)
        /\ result.test = c.test
           => (result.passed <=> OccurringCount(c.phrases, content) >= c.threshold)

\* the security check passed with exactly four of its six phrases: 'sql
\* injection' across the words 'SQL' and 'injection', 'XSS' in upper case,
\* 'input' inside 'inputs', 'Sensitive' capitalised, and 'secret' not counted
\* for 'secrets'
C7_Witness ==
    /\ result.test = "test_security_checklist_comprehensive"
    /\ result.passed
    /\ content = Join(SubSeq(SecurityWords, 1, 6), " ")
    /\ OccurringCount(security_concerns, content) = 4

-----------------------------------------------------------------------------
(* Claims on the identity check *)

IdRan == result.test = "test_main_and_cskill_identical"

\* C4 as stated: the identity check fails iff the two texts differ in at
\* least one character; a single trailing newline added to the copy makes it
\* fail, and two equal texts pass.
C4_AsStated ==
    IdRan =>
        /\ ~result.passed <=> content # content2
        /\ content2 = Append(content, NL) => ~result.passed
        /\ content = content2 => result.passed

\* the check passed on a main file that is one line feed and a copy that is
\* a carriage return and a line feed
C4_Witness ==
    /\ IdRan
    /\ result.passed
    /\ content = <<NL>>
    /\ content2 = <<CR, NL>>

-----------------------------------------------------------------------------
(* Claims on extract_code_blocks *)

\* a line that starts with three backticks, read off the line itself
IsFenceLine(l) == Len(l) >= 3 /\ l[1] = BT /\ l[2] = BT /\ l[3] = BT

\* the numbers of the fence lines of the document, ascending
RECURSIVE FenceLinesFrom(_, _)
FenceLinesFrom(ls, k) ==
    IF k > Len(ls) THEN <<>>
    ELSE (IF IsFenceLine(ls[k]) THEN <<k>> ELSE <<>>) \o FenceLinesFrom(ls, k + 1)

FenceLines == FenceLinesFrom(lines, 1)

\* the document is N well-formed fence pairs (and lines that start with no
\* fence, between the fences or around them): the fence lines pair up, and the
\* second of each pair is a bare ```
WellFormedPairs ==
    /\ Len(FenceLines) % 2 = 0
    /\ \A k \in 1..Len(FenceLines) : k % 2 = 0 => lines[FenceLines[k]] = Fence

\* the position in content of the first character of line k
RECURSIVE LineOffset(_)
LineOffset(k) == IF k = 1 THEN 1 ELSE LineOffset(k - 1) + Len(lines[k - 1]) + 1

\* the text of content strictly between the line break that ends line open
\* and the line break before line close
TextBetween(open, close) ==
    SubSeq(content, LineOffset(open + 1), LineOffset(close) - 2)

\* C1: a document of N well-formed fence pairs whose body lines start with no
\* fence yields exactly N blocks, in source order, and the code of the k-th
\* block is the text of the document between the fences of the k-th pair.
C1_RoundTripOnFences ==
    (pc = "done" /\ WellFormedPairs) =>
        /\ Len(code_blocks) * 2 = Len(FenceLines)
        /\ \A k \in 1..Len(code_blocks) :
              code_blocks[k].code =
                  TextBetween(FenceLines[2 * k - 1], FenceLines[2 * k])

\* two pairs were extracted, one of them with a body that is not empty
C1_Witness ==
    /\ pc = "done" /\ WellFormedPairs
    /\ Len(code_blocks) = 2
    /\ \E k \in 1..2 : code_blocks[k].code # <<>>

\* a line that is three or more backticks and nothing else once leading and
\* trailing whitespace is removed
ExactClosingFence(l) ==
    LET t == Strip(l)
    IN  Len(t) >= 3 /\ \A k \in 1..Len(t) : t[k] = BT

InsideBlockAtLine == pc = "scan" /\ in_code_block /\ i <= Len(lines)

\* C11 as stated: while the scan is inside a block, a line that is not
\* exactly a closing fence (such as a line of three backticks followed by
\* more text) is appended verbatim to the body and leaves the block open, so
\* only an exact closing fence closes the block.
C11_AsStated ==
    [][(InsideBlockAtLine /\ ~ExactClosingFence(lines[i])) =>
           /\ in_code_block'
           /\ code_blocks' = code_blocks
           /\ current_block' = [current_block EXCEPT !.code = Append(@, lines[i])]]_vars

\* a block opened by a bare fence on line 1 has been closed and emitted by
\* the line of three backticks and 'py' on line 2
C11_Witness ==
    /\ pc = "scan" /\ i = 3
    /\ lines[1] = Fence
    /\ lines[2] = <<BT, BT, BT, "p", "y">>
    /\ ~in_code_block
    /\ Len(code_blocks) = 1

\* C12: when the scan ends inside a block, that block is not emitted and no
\* error is raised; the blocks closed before it are returned, and an emitted
\* block never changes afterwards.
C12_UnterminatedDropped ==
    [][/\ \A k \in 1..Len(code_blocks) :
             Len(code_blocks') >= k /\ code_blocks'[k] = code_blocks[k]
       /\ (pc = "scan" /\ pc' = "done" /\ in_code_block) =>
             /\ code_blocks' = code_blocks
             /\ \A k \in 1..Len(code_blocks') :
                    code_blocks'[k].line_number < start_line
             /\ result' = NoResult]_vars

\* the scan has ended inside a block that opened after a closed block
C12_Witness ==
    /\ pc = "done"
    /\ in_code_block
    /\ Len(code_blocks) = 1
    /\ code_blocks[1].line_number < start_line

\* the tag of an opening fence as C13 states it: the text after all the
\* opening backticks, without surrounding whitespace, up to the end of its
\* leading run of word characters
StatedLanguage(l) ==
    LET ticks == RunLen(l, 1, {BT})
        rest == Strip(SubSeq(l, ticks + 1, Len(l)))
    IN  SubSeq(rest, 1, RunLen(rest, 1, WordChars))

\* C13 as stated: every emitted block has the 1-based line number of its
\* opening fence and, as language, the bare-word tag after the three or more
\* opening backticks (empty when there is none); four backticks followed by
\* a tag yield that tag.
C13_AsStated ==
    \A k \in 1..Len(code_blocks) :
        LET b == code_blocks[k]
        IN  /\ b.line_number \in 1..Len(lines)
            /\ IsFenceLine(lines[b.line_number])
            /\ b.language = StatedLanguage(lines[b.line_number])

\* a block opened by four backticks and 'py' was emitted with an empty
\* language
C13_Witness ==
    /\ Len(code_blocks) >= 1
    /\ lines[code_blocks[1].line_number] = <<BT, BT, BT, BT, "p", "y">>
    /\ code_blocks[1].language = <<>>

-----------------------------------------------------------------------------
(* Claims on test_markdown_code_blocks_well_formed *)

FenceRan == result.test = "test_markdown_code_blocks_well_formed"

\* the number of occurrences of three backticks in s from position p on,
\* counted from left to right without overlap
RECURSIVE OccurrencesFrom(_, _)
OccurrencesFrom(s, p) ==
    IF p + 2 > Len(s) THEN 0
    ELSE IF s[p] = BT /\ s[p + 1] = BT /\ s[p + 2] = BT
    THEN 1 + OccurrencesFrom(s, p + 3)
    ELSE OccurrencesFrom(s, p + 1)

\* the number of the lines of the document that start with three backticks
FenceLineCount ==
    Cardinality({k \in 1..Len(Split(content)) : IsFenceLine(Split(content)[k])})

\* C19 as stated: the fence-count check passes iff the number of occurrences
\* of three backticks in the document is even, wherever in a line they are.
C19_AsStated ==
    FenceRan => (result.passed <=> OccurrencesFrom(content, 1) % 2 = 0)

\* C19, amended: the check passes iff the number of lines that start with
\* three backticks is even; backticks after the start of a line, and
\* backticks after the first three of a line, are not counted.
C19_FenceParity ==
    FenceRan => (result.passed <=> FenceLineCount % 2 = 0)

\* the check passed on a document with two fence lines and a line that
\* holds three backticks after a letter
C19_Witness ==
    /\ FenceRan
    /\ result.passed
    /\ FenceLineCount = 2
    /\ OccurrencesFrom(content, 1) = 3

-----------------------------------------------------------------------------
(* Claims on test_no_broken_emphasis *)

EmRan == result.test = "test_no_broken_emphasis"

\* line k is a fence line of EmLineSet
IsEmFence(k) == lines[k] \in {Fence, IndentedFence, TaggedFence}

\* line k lies outside the fenced blocks, a block running from one fence line
\* (bare, indented or tagged) to the next: it is no fence line and an even
\* number of fence lines precedes it
OutsideBlocks(k) ==
    /\ ~IsEmFence(k)
    /\ Cardinality({j \in 1..(k - 1) : IsEmFence(j)}) % 2 = 0

\* the number of asterisks of each line of EmLineSet once its code spans are
\* removed, read off the line
StarsOutsideSpans(l) ==
    CASE l = Stars3 -> 3
      [] l = Star1 -> 1
      [] l = SpanStars -> 2
      [] l = UnclosedSpan -> 3
      [] OTHER -> 0

\* the lines C20 flags
StatedSuspicious ==
    {k \in 1..Len(lines) :
        /\ OutsideBlocks(k)
        /\ StarsOutsideSpans(lines[k]) % 2 = 1
        /\ StarsOutsideSpans(lines[k]) > 1}

\* C20: the emphasis check flags exactly the lines outside fenced blocks
\* (a block runs from one line whose trimmed text starts with three backticks
\* to the next such line) whose number of asterisks, code spans removed, is
\* odd and above 1, and it
\* fails iff at least 3 lines are flagged; a line with one asterisk, a line
\* of underscores and a line inside a fenced block are never flagged.
C20_EmphasisBalance ==
    EmRan =>
        /\ {result.diag[k].line : k \in 1..Len(result.diag)} = StatedSuspicious
        /\ Len(result.diag) = Cardinality(StatedSuspicious)
        /\ ~result.passed <=> Cardinality(StatedSuspicious) >= 3
        /\ \A k \in 1..Len(result.diag) :
              /\ lines[result.diag[k].line] \notin {Star1, Under3}
              /\ OutsideBlocks(result.diag[k].line)

\* the check passed with two flagged lines, beside three asterisks inside a
\* fenced block
C20_Witness ==
    /\ EmRan
    /\ result.passed
    /\ Cardinality(StatedSuspicious) = 2
    /\ \E k \in 1..Len(lines) : lines[k] = Stars3 /\ ~IsEmFence(k) /\ ~OutsideBlocks(k)

-----------------------------------------------------------------------------
(* Claims on the advisory checks *)

AdvRan == result.test \in {"test_no_bare_urls", "test_no_smart_quotes"}

\* C21: the advisory checks for bare URLs and smart quotes never fail: on
\* every pair of files, whatever they hold and however much is found, each of
\* the two checks ends in a pass.
C21_AdvisoryNeverFails == AdvRan => result.passed

\* the bare-URL check passed with three bare URLs found
C21_Witness ==
    /\ result.test = "test_no_bare_urls"
    /\ result.passed
    /\ Len(result.diag) >= 3

-----------------------------------------------------------------------------
(* Claims on TestCondensedVersionConsistency *)

\* the five tests of the class ran and all passed
CondensedAllPassed ==
    /\ result.test = "TestCondensedVersionConsistency"
    /\ \A t \in CondensedTests : HasRun(t)
    /\ result.passed

\* every topic the class looks for is in the text
CoversTopics(text) ==
    /\ HasCorePhases(text)
    /\ HasChainOfThought(text)
    /\ HasCodeGeneration(text)
    /\ HasChecklists(text)
    /\ HasSelfCorrection(text)

\* C22: whenever all condensed-version checks pass, every topic they look
\* for in the condensed document is also present in the main document.
C22_AsStated == CondensedAllPassed => CoversTopics(content)

\* all five checks passed on a condensed file that covers every topic
C22_Witness == CondensedAllPassed /\ CoversTopics(content2)

-----------------------------------------------------------------------------
(* Claims on the groups of extract_checklists *)

IsItemLine(k) == ChecklistMatch(lines[k])

\* the line of the last item of group g: the line from g.line_number on at
\* which the count of item lines reaches the number of items of g, or 0
LastItemLine(g) ==
    LET ends == {j \in g.line_number..Len(lines) :
                    /\ IsItemLine(j)
                    /\ Cardinality({x \in g.line_number..j : IsItemLine(x)}) = Len(g.items)}
    IN  IF g.line_number >= 1 /\ ends # {} THEN CHOOSE j \in ends : TRUE ELSE 0

\* the lines from the first item of g to its last
Span(g) == IF LastItemLine(g) = 0 THEN {} ELSE g.line_number..LastItemLine(g)

\* C23 as stated: every emitted group is a contiguous run of item lines, so
\* every line from its first item to its last is a checklist item.
C23_AsStated ==
    \A n \in 1..Len(checklists) :
        /\ LastItemLine(checklists[n]) # 0
        /\ \A j \in Span(checklists[n]) : IsItemLine(j)

\* C23: from the first item of an emitted group to its last there is no
\* heading and no non-empty line that does not start with '-'; every line in
\* between is an item of the group, a blank line, or a line starting with '-'
\* (a plain list line, a '---' rule).
C23_GroupRuns ==
    \A n \in 1..Len(checklists) :
        /\ LastItemLine(checklists[n]) # 0
        /\ IsItemLine(checklists[n].line_number)
        /\ \A j \in Span(checklists[n]) :
              /\ ~SectionMatch(lines[j])
              /\ \/ IsItemLine(j)
                 \/ Strip(lines[j]) = <<>>
                 \/ lines[j][1] = "-"

\* a group was emitted whose items have a blank line and a rule between them
C23_Witness ==
    \E n \in 1..Len(checklists) :
        /\ Len(checklists[n].items) >= 2
        /\ \E j, k \in Span(checklists[n]) : lines[j] = <<>> /\ lines[k] = Rule

-----------------------------------------------------------------------------
(* Claims on the extractors called twice *)

-----------------------------------------------------------------------------
(* Claims on the items extract_checklists keeps *)

\* the item texts of the lines before line k, in order
ItemTextsBefore(k) == BoxItemTexts(SubSeq(lines, 1, k - 1))

\* C25: extract_checklists loses and duplicates no item: at every step of the
\* scan the items of the emitted groups followed by those of the open group
\* are the trimmed texts of the item lines read so far, in document order, so
\* no flush (at a heading, at a non-empty line not starting with '-', at the
\* end of input) drops an item; the value returned holds the texts of all item
\* lines, and the line_number values of the groups are strictly increasing.
C25_NoItemLost ==
    /\ pc = "scan" =>
          AllItems(checklists) \o current_checklist.items = ItemTextsBefore(i)
    /\ pc = "done" => AllItems(checklists) = BoxItemTexts(lines)
    /\ \A m, n \in 1..Len(checklists) :
          m < n => checklists[m].line_number < checklists[n].line_number

\* the scan returned two groups or more, one of them with two items
C25_Witness ==
    /\ pc = "done"
    /\ Len(checklists) >= 2
    /\ Len(AllItems(checklists)) >= 3

-----------------------------------------------------------------------------
(* Claims on the fence-count check and extract_code_blocks together *)

\* the fence-count check ran and the extractor is scanning or has returned
ExtractorCalled == FenceRan /\ lines # <<>>

\* the number of the lines before line k that start with three backticks
FenceLinesBefore(k) == Cardinality({j \in 1..(k - 1) : IsFenceLine(lines[j])})

\* C26: every line that starts with three backticks toggles the extractor's
\* in_code_block, so extract_code_blocks returns floor(F/2) blocks, F being
\* the number of such lines, and the fence-count check passes iff the
\* extractor ends its scan outside a block.
C26_ParityAgrees ==
    /\ (ExtractorCalled /\ pc = "scan") =>
          /\ in_code_block <=> FenceLinesBefore(i) % 2 = 1
          /\ Len(code_blocks) = FenceLinesBefore(i) \div 2
    /\ (ExtractorCalled /\ pc = "done") =>
          /\ Len(code_blocks) = FenceLineCount \div 2
          /\ result.diag = FenceLineCount
          /\ result.passed <=> ~in_code_block

\* the check failed on three fence lines and the extractor returned one block
\* and ended inside another
C26_Witness ==
    /\ ExtractorCalled /\ pc = "done"
    /\ ~result.passed
    /\ FenceLineCount = 3
    /\ Len(code_blocks) = 1
    /\ in_code_block

-----------------------------------------------------------------------------
(* Claims on the checks of the two full copies *)

LineCountRan == result.test = "test_main_and_cskill_line_counts_match"
SameSectionsRan == result.test = "test_full_copies_have_same_sections"

\* the two files give the same text when read
SameTextRead == ReadText(content) = ReadText(content2)

\* C27: the identity check subsumes the other two checks of the full copies:
\* on a pair of files the identity check passes only if the two texts read are
\* equal, and on every such pair the line-count check and the section-set
\* check pass.
C27_IdentitySubsumes ==
    /\ (IdRan /\ result.passed) => SameTextRead
    /\ (LineCountRan /\ SameTextRead) => result.passed
    /\ (SameSectionsRan /\ SameTextRead) => result.passed

\* the line-count check passed on two files that differ as stored and give
\* the same text when read, so that the identity check passes on them
C27_Witness ==
    /\ LineCountRan
    /\ result.passed
    /\ SameTextRead
    /\ content # content2
    /\ LineCount(content) = 2

\* the converse fails: the section-set check passed on two files whose texts
\* differ
C27_ConverseFails ==
    /\ SameSectionsRan
    /\ result.passed
    /\ ~SameTextRead
    /\ LineCount(content) = LineCount(content2)

-----------------------------------------------------------------------------
(* Claims on extract_checklists and fenced blocks *)

\* line k lies inside a fenced block: it is no fence line and an odd number
\* of fence lines precedes it
InsideFencedBlock(k) ==
    /\ lines[k] # Fence
    /\ Cardinality({j \in 1..(k - 1) : lines[j] = Fence}) % 2 = 1

\* the groups returned whose span holds line k
GroupsHolding(k) == {n \in 1..Len(checklists) : k \in Span(checklists[n])}

\* C28: extract_checklists keeps no code-block state: an item line inside a
\* fenced block is extracted like any other, a heading line inside a fenced
\* block becomes the section of the group that follows it and ends the group
\* before it, and a fence line ends the open group, so no group runs across a
\* fence line.
C28_NoCodeBlockState ==
    pc = "done" =>
        /\ \A k \in 1..Len(lines) :
              (InsideFencedBlock(k) /\ IsItemLine(k)) =>
                  /\ GroupsHolding(k) # {}
                  /\ \A n \in GroupsHolding(k) :
                        checklists[n].section = NearestHeadingText(checklists[n].line_number)
        /\ \A k \in 1..Len(lines) :
              (lines[k] = Fence \/ (InsideFencedBlock(k) /\ IsHeadingLine(lines[k])))
                  => GroupsHolding(k) = {}

\* an item inside a fenced block was extracted under a heading that lies
\* inside the block, after a group that the opening fence line ended
C28_Witness ==
    /\ pc = "done"
    /\ Len(checklists) = 2
    /\ \E k \in 2..Len(lines) :
          /\ InsideFencedBlock(k) /\ IsItemLine(k)
          /\ InsideFencedBlock(k - 1) /\ lines[k - 1] = HeadingS
          /\ checklists[2].line_number = k
          /\ checklists[2].section = <<"S">>
    /\ lines[checklists[1].line_number + 1] = Fence

-----------------------------------------------------------------------------
(* Claims on the table regions of test_tables_well_formed *)

\* the scan of the table check is at line i
TblScanning == pc = "scan" /\ result.test = "none"

\* the document is tables, each with one pipe count in all its rows, and two
\* of them, with a line without '|' between them, differ in that count
TablesOfDifferentWidth ==
    /\ MismatchedRows = {}
    /\ \E j, k, m \in 1..Len(lines) :
          /\ j < k /\ k < m
          /\ PipesOf(lines[j]) > 0
          /\ PipesOf(lines[k]) = 0
          /\ PipesOf(lines[m]) > 0
          /\ PipesOf(lines[j]) # PipesOf(lines[m])

\* C29: while the table check scans, it is inside a region iff the line just
\* read holds '|'; the region then started at the first line of the run of
\* lines with '|' that the line just read ends, and the expected count is the
\* pipe count of that first row, whatever the rows after it hold; so each
\* region has its own expected count, and two tables of different column
\* counts with a line without '|' between them give no issue.
C29_TableRegions ==
    /\ TblScanning =>
          /\ in_table <=> (i > 1 /\ PipesOf(lines[i - 1]) > 0)
          /\ in_table =>
                /\ table_start = RegionFirst(i - 1)
                /\ column_count = PipesOf(lines[table_start])
    /\ (TblRan /\ TablesOfDifferentWidth) => (result.passed /\ result.diag = <<>>)

\* the check passed on two tables of different column counts
C29_Witness ==
    /\ TblRan
    /\ TablesOfDifferentWidth
    /\ result.passed
    /\ column_count = 2
    /\ table_start >= 3

-----------------------------------------------------------------------------
(* Claims on the normalization of section names *)

Punctuation == {"!", "?", ".", ",", ":", ";", "-", "(", ")"}

\* a character the claim lets two headings differ in freely
DigitOrPunctuation(c) == c \in Digits \cup Punctuation

\* a and b are the same text but for the case of their letters and for digits
\* and punctuation that one has and the other has not, or has others of
RECURSIVE DifferOnlyInCaseDigitsPunctuation(_, _)
DifferOnlyInCaseDigitsPunctuation(a, b) ==
    \/ a = <<>> /\ b = <<>>
    \/ /\ a # <<>> /\ b # <<>>
       /\ LowerChar(Head(a)) = LowerChar(Head(b))
       /\ DifferOnlyInCaseDigitsPunctuation(Tail(a), Tail(b))
    \/ /\ a # <<>>
       /\ DigitOrPunctuation(Head(a))
       /\ DifferOnlyInCaseDigitsPunctuation(Tail(a), b)
    \/ /\ b # <<>>
       /\ DigitOrPunctuation(Head(b))
       /\ DifferOnlyInCaseDigitsPunctuation(a, Tail(b))

\* the texts of the lines of s that are '## ' and a text
RawH2Headings(s) ==
    { SubSeq(l, 4, Len(l)) :
         l \in { m \in Range(Split(s)) :
                    /\ StartsWith(m, <<"#", "#", " ">>)
                    /\ Len(m) > 3
                    /\ m[4] \notin Whitespace } }

\* each heading of one document has, in the other, a heading it differs from
\* only in case, digits and punctuation
HeadingsDifferOnlyInErased ==
    /\ \A a \in RawH2Headings(content) :
          \E b \in RawH2Headings(content2) : DifferOnlyInCaseDigitsPunctuation(a, b)
    /\ \A b \in RawH2Headings(content2) :
          \E a \in RawH2Headings(content) : DifferOnlyInCaseDigitsPunctuation(a, b)

\* C30: the normalization of section names is not injective: two headings
\* that differ only in the case of letters, in digits and in punctuation
\* ('Phase 1' and 'Phase 2', 'Overview' and 'OVERVIEW!') have the same
\* normalized name, and the section check passes on two documents each of
\* whose second-level headings has such a counterpart in the other.
C30_NormalizationNotInjective ==
    SecRan =>
        /\ \A a \in RawH2Headings(content), b \in RawH2Headings(content2) :
              DifferOnlyInCaseDigitsPunctuation(a, b)
                  => NormalizeSection(a) = NormalizeSection(b)
        /\ HeadingsDifferOnlyInErased => result.passed

\* the check passed on 'Phase 1', 'Overview' against 'Phase 2', 'OVERVIEW!'
C30_Witness ==
    /\ SecRan
    /\ result.passed
    /\ RawH2Headings(content) = { <<"P","h","a","s","e"," ","1">>, <<"O","v","e","r","v","i","e","w">> }
    /\ RawH2Headings(content2) = { <<"P","h","a","s","e"," ","2">>, <<"O","V","E","R","V","I","E","W","!">> }

=============================================================================
